---- MODULE Spec2Model ----
(***************************************************************************)
(* A model of the NES emulator core: the PPU timing/register state machine *)
(* (src/src/ppu), the address bus with its master clock (src/src/bus.rs)   *)
(* and the CPU run loop (src/src/cpu.rs).                                  *)
(*                                                                         *)
(* Three instances are modelled, following the ownership in the source:    *)
(*   ppu  - a stand-alone NesPPU, driven as the unit tests of ppu/mod.rs   *)
(*          drive it (SpecPPU);                                            *)
(*   bus  - a Bus (owning its own NesPPU, bus.ppu) driven through its      *)
(*          public operations (SpecBus);                                   *)
(*   cpu  - the CPU register file; the CPU owns `bus` and runs             *)
(*          run_with_callback on it (Spec, FairSpec).                      *)
(***************************************************************************)
EXTENDS Integers, Naturals, Sequences, FiniteSets, TLC

(***************************************************************************)
(* Bounds of the model.                                                    *)
(***************************************************************************)
\* total PPU dots delivered to the stand-alone PPU (a little over 2 frames)
MaxDots == 180000
\* bus cycle counter cap (a little over 2 frames of 89342/3 CPU cycles)
MaxBusCycles == 60000
\* number of bus ticks whose u8 product cycles*3 wrapped (release build)
MaxWraps == 2
\* Data-register accesses of a behaviour
MaxAccesses == 2

(***************************************************************************)
(* Program constants.                                                      *)
(***************************************************************************)
DotsPerLine == 341
VblankLine == 241
LinesPerFrame == 262
GENERATE_NMI == 128
VBLANK_STARTED == 128
SPRITE_ZERO_HIT == 64

Byte == 0..255

\* Option<u8>: None is the empty sequence, Some(v) is <<v>>
None == <<>>
Some(v) == <<v>>
is_some(o) == o # None

\* the value of a singleton set.  A sequence of statements `let x = E; body`
\* is written the({ body : x \in {E} }), to be read from the last line up.
the(S) == CHOOSE x \in S : TRUE

\* bitflags `contains` / `set(flag, TRUE)` / `remove` for a single-bit flag
contains(bits, flag) == (bits \div flag) % 2 = 1
insert(bits, flag) == IF contains(bits, flag) THEN bits ELSE bits + flag
remove(bits, flag) == IF contains(bits, flag) THEN bits - flag ELSE bits
set(bits, flag, value) == IF value THEN insert(bits, flag) ELSE remove(bits, flag)

(***************************************************************************)
(* PPU registers (src/src/ppu/registers).                                  *)
(***************************************************************************)
\* ControlRegister::generate_nmi
generate_nmi(ctrl) == contains(ctrl, GENERATE_NMI)

\* ControlRegister::update
ControlRegister_update(ctrl, data) == data

\* StatusRegister::set_vblank_started / set_sprite_zero_hit
set_vblank_started(status, flag) == set(status, VBLANK_STARTED, flag)
set_sprite_zero_hit(status, flag) == set(status, SPRITE_ZERO_HIT, flag)

\* StatusRegister::check_vblank_started / reset_vblank_started
check_vblank_started(status) == contains(status, VBLANK_STARTED)
reset_vblank_started(status) == remove(status, VBLANK_STARTED)

\* AddrRegister: value is the (hi, lo) pair, hi_ptr the write latch
AddrRegister_new == [value |-> <<0, 0>>, hi_ptr |-> TRUE]
AddrRegister_get(a) == a.value[1] * 256 + a.value[2]
AddrRegister_set(a, data) ==
    [a EXCEPT !.value = <<data \div 256, data % 256>>]
\* a mask of 15 bits
Mut_mask_15_bits(a) ==
    IF AddrRegister_get(a) > 32767
    THEN AddrRegister_set(a, AddrRegister_get(a) % 32768)
    ELSE a
AddrRegister_mask(a) ==
    IF AddrRegister_get(a) > 16383
    THEN AddrRegister_set(a, AddrRegister_get(a) % 16384)
    ELSE a
AddrRegister_update(a, data) ==
    LET a1 == IF a.hi_ptr THEN [a EXCEPT !.value[1] = data]
                          ELSE [a EXCEPT !.value[2] = data]
    IN  [AddrRegister_mask(a1) EXCEPT !.hi_ptr = ~a.hi_ptr]
AddrRegister_reset_latch(a) == [a EXCEPT !.hi_ptr = TRUE]

\* ScrollRegister
ScrollRegister_new == [h_scroll |-> 0, v_scroll |-> 0, latch |-> FALSE]
ScrollRegister_write(s, data) ==
    [(IF ~s.latch THEN [s EXCEPT !.h_scroll = data]
                  ELSE [s EXCEPT !.v_scroll = data])
       EXCEPT !.latch = ~s.latch]
ScrollRegister_reset_latch(s) == [s EXCEPT !.latch = FALSE]

(***************************************************************************)
(* NesPPU (src/src/ppu/mod.rs): timing counters, registers, pending NMI.   *)
(***************************************************************************)
\* registers/oam.rs: OamRegisters::new; oam_data is the 256-byte array, kept
\* as the function of its non-zero cells
OamRegisters_new == [oam_addr |-> 0, oam_data |-> << >>]

\* vram and palette_table are the 2KB and 32-byte arrays, kept as the
\* functions of their non-zero cells; chr_rom is the cartridge's CHR image,
\* its length and the seed of its contents
NesPPU_new(chr_rom, mirroring) ==
    [ chr_rom           |-> chr_rom,
      mirroring         |-> mirroring,
      vram              |-> << >>,
      oam               |-> OamRegisters_new,
      oam_addr          |-> 0,
      oam_data          |-> << >>,
      palette_table     |-> << >>,
      internal_data_buf |-> 0,
      ctrl          |-> 0,
      mask          |-> 0,
      status        |-> 0,
      addr          |-> AddrRegister_new,
      scroll        |-> ScrollRegister_new,
      scanline      |-> 0,
      cycles        |-> 0,
      nmi_interrupt |-> None ]

\* a CHR image and the byte at offset i of it: seed 0 is the image of zero
\* bytes (vec![0; len]), any other seed an image whose byte i is
\* (i + seed) mod 256
Chr(len, seed) == [len |-> len, seed |-> seed]
ChrByte(chr, i) == IF chr.seed = 0 THEN 0 ELSE (i + chr.seed) % 256

\* NesPPU::new_empty_rom
NesPPU_new_empty_rom == NesPPU_new(Chr(2048, 0), "HORIZONTAL")

\* the `if self.scanline == 241` block of NesPPU::tick
Mut_enter_vblank_always_nmi(p) ==
    IF p.scanline = VblankLine
    THEN [p EXCEPT !.status = set_sprite_zero_hit(set_vblank_started(@, TRUE), FALSE),
                   !.nmi_interrupt = Some(1)]
    ELSE p
tick_enter_vblank(p) ==
    IF p.scanline = VblankLine
    THEN [p EXCEPT !.status = set_sprite_zero_hit(set_vblank_started(@, TRUE), FALSE),
                   !.nmi_interrupt = IF generate_nmi(p.ctrl) THEN Some(1) ELSE @]
    ELSE p

\* the `if self.scanline >= 262` block of NesPPU::tick: the new PPU state and
\* whether the call returns true from inside the block
Mut_end_frame_keeps_nmi(p) ==
    IF p.scanline >= LinesPerFrame
    THEN [ppu |-> [p EXCEPT !.scanline = 0,
                            !.status = reset_vblank_started(set_sprite_zero_hit(@, FALSE))],
          ret |-> TRUE]
    ELSE [ppu |-> p, ret |-> FALSE]
tick_end_frame(p) ==
    IF p.scanline >= LinesPerFrame
    THEN [ppu |-> [p EXCEPT !.scanline = 0,
                            !.nmi_interrupt = None,
                            !.status = reset_vblank_started(set_sprite_zero_hit(@, FALSE))],
          ret |-> TRUE]
    ELSE [ppu |-> p, ret |-> FALSE]

\* NesPPU::tick(cycles: u8) -> bool
Mut_tick_strict_compare(p, cycles) ==
    LET c1 == p.cycles + cycles
    IN  IF c1 > DotsPerLine
        THEN tick_end_frame(tick_enter_vblank(
                 [p EXCEPT !.cycles = c1 - DotsPerLine, !.scanline = @ + 1]))
        ELSE [ppu |-> [p EXCEPT !.cycles = c1], ret |-> FALSE]
NesPPU_tick(p, cycles) ==
    LET c1 == p.cycles + cycles
    IN  IF c1 >= DotsPerLine
        THEN tick_end_frame(tick_enter_vblank(
                 [p EXCEPT !.cycles = c1 - DotsPerLine, !.scanline = @ + 1]))
        ELSE [ppu |-> [p EXCEPT !.cycles = c1], ret |-> FALSE]

\* NesPPU::poll_nmi_interrupt: Option::take
Mut_poll_without_take(p) == [ppu |-> p, ret |-> p.nmi_interrupt]
poll_nmi_interrupt(p) ==
    [ppu |-> [p EXCEPT !.nmi_interrupt = None], ret |-> p.nmi_interrupt]

\* the latch taken from the level of the NMI-generation bit, not its rise
Mut_write_to_ctrl_on_level(p, value) ==
    LET p1 == [p EXCEPT !.ctrl = ControlRegister_update(@, value)]
    IN  IF generate_nmi(p1.ctrl) /\ check_vblank_started(p1.status)
        THEN [p1 EXCEPT !.nmi_interrupt = Some(1)]
        ELSE p1

\* the latch taken on the rise of the NMI-generation bit, in vblank or not
Mut_write_to_ctrl_outside_vblank(p, value) ==
    LET before_nmi_status == generate_nmi(p.ctrl)
        p1 == [p EXCEPT !.ctrl = ControlRegister_update(@, value)]
    IN  IF ~before_nmi_status /\ generate_nmi(p1.ctrl)
        THEN [p1 EXCEPT !.nmi_interrupt = Some(1)]
        ELSE p1

\* PPU::write_to_ctrl
write_to_ctrl(p, value) ==
    LET before_nmi_status == generate_nmi(p.ctrl)
        p1 == [p EXCEPT !.ctrl = ControlRegister_update(@, value)]
    IN  IF ~before_nmi_status /\ generate_nmi(p1.ctrl)
           /\ check_vblank_started(p1.status)
        THEN [p1 EXCEPT !.nmi_interrupt = Some(1)]
        ELSE p1

\* PPU::write_to_mask, write_to_scroll, write_to_ppu_addr
write_to_mask(p, value) == [p EXCEPT !.mask = value]
write_to_scroll(p, value) == [p EXCEPT !.scroll = ScrollRegister_write(@, value)]
write_to_ppu_addr(p, value) == [p EXCEPT !.addr = AddrRegister_update(@, value)]

\* a read that leaves the write latches as they are
Mut_read_status_keeps_latches(p) ==
    [ppu |-> [p EXCEPT !.status = reset_vblank_started(@)],
     ret |-> p.status]

\* PPU::read_status
read_status(p) ==
    [ppu |-> [p EXCEPT !.status = reset_vblank_started(@),
                       !.addr = AddrRegister_reset_latch(@),
                       !.scroll = ScrollRegister_reset_latch(@)],
     ret |-> p.status]

\* ControlRegister::vram_addr_increment
VRAM_ADD_INCREMENT == 4
vram_addr_increment(ctrl) == IF contains(ctrl, VRAM_ADD_INCREMENT) THEN 32 ELSE 1

\* AddrRegister::increment
AddrRegister_increment(a, inc) ==
    the({ AddrRegister_mask(
              IF a.value[2] > lo1
              THEN [a EXCEPT !.value = << (a.value[1] + 1) % 256, lo1 >>]
              ELSE [a EXCEPT !.value = << a.value[1], lo1 >>])
        : lo1 \in {(a.value[2] + inc) % 256} })

\* NesPPU::increment_vram_addr
increment_vram_addr(p) ==
    [p EXCEPT !.addr = AddrRegister_increment(@, vram_addr_increment(p.ctrl))]

\* the sizes of the vram and palette_table arrays
VramSize == 2048
PaletteSize == 32

\* every logical nametable folded onto the banks as under vertical mirroring
Mut_mirror_always_vertical(p, addr) ==
    LET mirrored_vram == (addr % \h1000) + (((addr \div \h2000) % 2) * \h2000)
        vram_index    == mirrored_vram - \h2000
    IN  vram_index % \h0800

\* NesPPU::mirror_vram_addr, called with 0x2000 <= addr <= 0x2FFF.
\* `addr & 0b10_1111_1111_1111` clears bit 12 and the bits above bit 13.
mirror_vram_addr(p, addr) ==
    LET mirrored_vram == (addr % \h1000) + (((addr \div \h2000) % 2) * \h2000)
        vram_index    == mirrored_vram - \h2000
        name_table    == vram_index \div \h0400
    IN  CASE p.mirroring = "VERTICAL" /\ name_table \in {2, 3}   -> vram_index - \h0800
          [] p.mirroring = "HORIZONTAL" /\ name_table \in {1, 2} -> vram_index - \h0400
          [] p.mirroring = "HORIZONTAL" /\ name_table = 3        -> vram_index - \h0800
          [] OTHER                                               -> vram_index

\* a[i] and a[i] = data on an array of `size` cells kept as the function of
\* its non-zero cells; an index outside the array panics
cell_get(a, i) == IF i \in DOMAIN a THEN a[i] ELSE 0
cell_set(a, i, data) ==
    CASE data # 0         -> (i :> data) @@ a
      [] i \in DOMAIN a   -> [k \in DOMAIN a \ {i} |-> a[k]]
      [] OTHER            -> a

\* OamRegisters::write_addr
write_addr(o, data) == [o EXCEPT !.oam_addr = data]

\* OamRegisters::write_data
Mut_write_data_keeps_cursor(o, data) ==
    [o EXCEPT !.oam_data = cell_set(@, o.oam_addr, data)]
write_data(o, data) ==
    [oam_addr |-> (o.oam_addr + 1) % 256,
     oam_data |-> cell_set(o.oam_data, o.oam_addr, data)]

\* the `for x in data.iter()` loop of OamRegisters::write_dma over the n
\* bytes data[i], data[i + 1], ...; data is the function from 0..255
RECURSIVE write_dma_loop(_, _, _, _)
write_dma_loop(o, data, i, n) ==
    CASE n = 0 -> o
      [] n = 1 -> [oam_addr |-> (o.oam_addr + 1) % 256,
                   oam_data |-> cell_set(o.oam_data, o.oam_addr, data[i])]
      [] OTHER -> the({ write_dma_loop(q, data, i + n \div 2, n - n \div 2)
                      : q \in {write_dma_loop(o, data, i, n \div 2)} })

\* OamRegisters::write_dma
Mut_write_dma_from_zero(o, data) ==
    [oam_addr |-> o.oam_addr,
     oam_data |-> [k \in { j \in 0..255 : data[j] # 0 } |-> data[k]]]
write_dma(o, data) == write_dma_loop(o, data, 0, 256)

\* OamRegisters::get_data
get_data(o) == cell_get(o.oam_data, o.oam_addr)

\* NesPPU::write_to_oam_addr
write_to_oam_addr(p, value) ==
    the({ [p EXCEPT !.oam = o, !.oam_addr = o.oam_addr]
        : o \in {write_addr(p.oam, value)} })

\* NesPPU::write_to_oam_data
write_to_oam_data(p, value) ==
    the({ [p EXCEPT !.oam = o, !.oam_data = o.oam_data]
        : o \in {write_data(p.oam, value)} })

\* NesPPU::read_oam_data: the byte returned; the PPU is not changed
read_oam_data(p) == get_data(p.oam)

\* NesPPU::write_oam_dma
write_oam_dma(p, data) ==
    the({ [p EXCEPT !.oam = o, !.oam_addr = o.oam_addr, !.oam_data = o.oam_data]
        : o \in {write_dma(p.oam, data)} })

\* NesPPU::read_data: the PPU after the call, the byte returned and the
\* panic the call ends in, if any
read_data(p) ==
    the({ the({
        CASE addr <= \h1FFF ->
               IF addr >= p.chr_rom.len
               THEN [ppu |-> p1, ret |-> 0, fault |-> "index_out_of_bounds"]
               ELSE [ppu |-> [p1 EXCEPT !.internal_data_buf = ChrByte(p.chr_rom, addr)],
                     ret |-> p.internal_data_buf, fault |-> "none"]
          [] addr >= \h2000 /\ addr <= \h2FFF ->
               the({ IF i >= VramSize
                     THEN [ppu |-> p1, ret |-> 0, fault |-> "index_out_of_bounds"]
                     ELSE [ppu |-> [p1 EXCEPT !.internal_data_buf = cell_get(p.vram, i)],
                           ret |-> p.internal_data_buf, fault |-> "none"]
                   : i \in {mirror_vram_addr(p1, addr)} })
          [] addr >= \h3000 /\ addr <= \h3EFF ->
               [ppu |-> p1, ret |-> 0, fault |-> "addr_space_not_expected"]
          [] addr \in {\h3F10, \h3F14, \h3F18, \h3F1C} ->
               [ppu |-> p1, ret |-> cell_get(p.palette_table, (addr - \h10) - \h3F00),
                fault |-> "none"]
          [] addr >= \h3F00 /\ addr <= \h3FFF ->
               IF addr - \h3F00 >= PaletteSize
               THEN [ppu |-> p1, ret |-> 0, fault |-> "index_out_of_bounds"]
               ELSE [ppu |-> p1, ret |-> cell_get(p.palette_table, addr - \h3F00),
                     fault |-> "none"]
          [] OTHER ->
               [ppu |-> p1, ret |-> 0, fault |-> "unexpected_access"]
        : p1 \in {increment_vram_addr(p)} })
        : addr \in {AddrRegister_get(p.addr)} })

\* NesPPU::write_to_data: the PPU after the call and the panic it ends in
write_to_data(p, value) ==
    the({
        CASE addr <= \h1FFF ->
               [ppu |-> increment_vram_addr(p), fault |-> "none"]
          [] addr >= \h2000 /\ addr <= \h2FFF ->
               the({ IF i >= VramSize
                     THEN [ppu |-> p, fault |-> "index_out_of_bounds"]
                     ELSE [ppu |-> increment_vram_addr(
                                       [p EXCEPT !.vram = cell_set(@, i, value)]),
                           fault |-> "none"]
                   : i \in {mirror_vram_addr(p, addr)} })
          [] addr >= \h3000 /\ addr <= \h3EFF ->
               [ppu |-> p, fault |-> "addr_space_not_expected"]
          [] addr \in {\h3F10, \h3F14, \h3F18, \h3F1C} ->
               [ppu |-> increment_vram_addr(
                            [p EXCEPT !.palette_table =
                                 cell_set(@, (addr - \h10) - \h3F00, value)]),
                fault |-> "none"]
          [] addr >= \h3F00 /\ addr <= \h3FFF ->
               IF addr - \h3F00 >= PaletteSize
               THEN [ppu |-> p, fault |-> "index_out_of_bounds"]
               ELSE [ppu |-> increment_vram_addr(
                                 [p EXCEPT !.palette_table =
                                      cell_set(@, addr - \h3F00, value)]),
                     fault |-> "none"]
          [] OTHER ->
               [ppu |-> p, fault |-> "unexpected_access"]
        : addr \in {AddrRegister_get(p.addr)} })

(***************************************************************************)
(* Bus (src/src/bus.rs).  cpu_vram is the 2KB array, kept as the function  *)
(* of its non-zero cells; prg_rom names the cartridge image.               *)
(***************************************************************************)
\* cartridge.rs: struct Rom
Rom(prg_rom, chr_rom, screen_mirroring) ==
    [prg_rom |-> prg_rom, chr_rom |-> chr_rom, screen_mirroring |-> screen_mirroring]

Bus_new(rom) ==
    [ cpu_vram |-> << >>,
      prg_rom  |-> rom.prg_rom,
      ppu      |-> NesPPU_new(rom.chr_rom, rom.screen_mirroring),
      cycles   |-> 0 ]

\* the u8 product `cycles * 3` of Bus::tick: with overflow checks (debug
\* profile) a product above 255 panics, without them (release) it wraps
U8Max == 255
mul3_u8(cycles, checks) ==
    IF cycles * 3 > U8Max /\ checks
    THEN [fault |-> "overflow", v |-> 0]
    ELSE [fault |-> "none", v |-> (cycles * 3) % (U8Max + 1)]

\* Bus::tick.  called: whether gameloop_callback was invoked, seen: the PPU
\* it was handed.
Mut_tick_callback_on_level(b, cycles, checks) ==
    the({ IF dots.fault # "none"
          THEN [bus |-> [b EXCEPT !.cycles = @ + cycles], fault |-> dots.fault,
                called |-> FALSE, eof |-> FALSE]
          ELSE the({ [bus |-> [b EXCEPT !.cycles = @ + cycles, !.ppu = t.ppu],
                      fault |-> "none",
                      called |-> is_some(t.ppu.nmi_interrupt),
                      eof |-> t.ret]
                   : t \in {NesPPU_tick(b.ppu, dots.v)} })
        : dots \in {mul3_u8(cycles, checks)} })
Mut_tick_without_callback(b, cycles, checks) ==
    the({ IF dots.fault # "none"
          THEN [bus |-> [b EXCEPT !.cycles = @ + cycles], fault |-> dots.fault,
                called |-> FALSE, eof |-> FALSE]
          ELSE the({ [bus |-> [b EXCEPT !.cycles = @ + cycles, !.ppu = t.ppu],
                      fault |-> "none",
                      called |-> FALSE,
                      eof |-> t.ret]
                   : t \in {NesPPU_tick(b.ppu, dots.v)} })
        : dots \in {mul3_u8(cycles, checks)} })
Bus_tick(b, cycles, checks) ==
    the({ IF dots.fault # "none"
          THEN [bus |-> [b EXCEPT !.cycles = @ + cycles], fault |-> dots.fault,
                called |-> FALSE, eof |-> FALSE]
          ELSE the({ [bus |-> [b EXCEPT !.cycles = @ + cycles, !.ppu = t.ppu],
                      fault |-> "none",
                      called |-> ~is_some(b.ppu.nmi_interrupt)
                                 /\ is_some(t.ppu.nmi_interrupt),
                      eof |-> t.ret]
                   : t \in {NesPPU_tick(b.ppu, dots.v)} })
        : dots \in {mul3_u8(cycles, checks)} })

\* Bus::poll_nmi_status
Bus_poll_nmi_status(b) ==
    the({ [bus |-> [b EXCEPT !.ppu = r.ppu], ret |-> r.ret]
        : r \in {poll_nmi_interrupt(b.ppu)} })

(***************************************************************************)
(* Cartridge images.  An image is its length and its non-zero bytes: the   *)
(* program at offset 0, an NMI handler at offset 0x20, and the NMI and     *)
(* reset vectors in the last six bytes.                                    *)
(***************************************************************************)
NmiHandlerOffset == \h20
Image(len, code) == [len |-> len, code |-> code]

\* LDA #$80 ; STA $2000 ; L: NOP ; JMP L   (enable NMI generation, then spin)
ProgEnableNmi == << \hA9, \h80, \h8D, \h00, \h20, \hEA, \h4C, \h05, \h80 >>
\* LDX #$01 ; L: LDA $00FF,X ; LDA $2002 ; BNE $8000 ; JMP L
ProgPollStatus ==
    << \hA2, \h01, \hBD, \hFF, \h00, \hAD, \h02, \h20, \hD0, \hF6, \h4C, \h02, \h80 >>
\* LDX #$FD ; L: INX ; NOP ; BNE L ; BRK
ProgCountThenBrk == << \hA2, \hFD, \hE8, \hEA, \hD0, \hFC, \h00 >>
Images ==
    { Image(\h4000, ProgEnableNmi), Image(\h4000, ProgPollStatus),
      Image(\h8000, ProgCountThenBrk) }

\* the byte at offset i of the image
PrgByte(image, i) ==
    CASE i < Len(image.code)            -> image.code[i + 1]
      [] i = NmiHandlerOffset           -> \h4C       \* JMP $8020
      [] i = NmiHandlerOffset + 1       -> \h20
      [] i = NmiHandlerOffset + 2       -> \h80
      [] i = image.len - 6              -> \h20       \* 0xFFFA: NMI vector
      [] i = image.len - 5              -> \h80
      [] i = image.len - 4              -> \h00       \* 0xFFFC: reset vector
      [] i = image.len - 3              -> \h80
      [] OTHER                          -> 0

\* Bus::read_prg_rom
read_prg_rom(b, addr) ==
    LET a1 == addr - \h8000
        a2 == IF b.prg_rom.len = \h4000 /\ a1 >= \h4000 THEN a1 % \h4000 ELSE a1
    IN  PrgByte(b.prg_rom, a2)

\* cpu_vram[i] and cpu_vram[i] = data on the sparse array
array_get(arr, i) == IF i \in DOMAIN arr THEN arr[i] ELSE 0
array_set(arr, i, data) ==
    IF data = 0
    THEN [k \in DOMAIN arr \ {i} |-> arr[k]]
    ELSE [k \in DOMAIN arr \cup {i} |-> IF k = i THEN data ELSE arr[k]]

\* Bus::mem_read, for the arms over state the model holds: RAM, the
\* write-only PPU registers, Status, OAM Data, Data, the register mirrors, APU,
\* joypad 2, PRG ROM and the unmapped space.  fault: the panic the read ends
\* in, if any.
RECURSIVE Bus_mem_read(_, _)
Bus_mem_read(b, addr) ==
    CASE addr <= \h1FFF ->
           [bus |-> b, v |-> array_get(b.cpu_vram, addr % \h0800), fault |-> "none"]
      [] addr \in {\h2000, \h2001, \h2003, \h2005, \h2006, \h4014} ->
           [bus |-> b, v |-> 0, fault |-> "none"]
      [] addr = \h2002 ->
           the({ [bus |-> [b EXCEPT !.ppu = r.ppu], v |-> r.ret, fault |-> "none"]
               : r \in {read_status(b.ppu)} })
      [] addr = \h2004 ->
           [bus |-> b, v |-> read_oam_data(b.ppu), fault |-> "none"]
      [] addr = \h2007 ->
           the({ [bus |-> [b EXCEPT !.ppu = r.ppu], v |-> r.ret, fault |-> r.fault]
               : r \in {read_data(b.ppu)} })
      [] addr >= \h2008 /\ addr <= \h3FFF ->
           Bus_mem_read(b, \h2000 + (addr % 8))
      [] addr >= \h4000 /\ addr <= \h4015 /\ addr # \h4014 ->
           [bus |-> b, v |-> 0, fault |-> "none"]
      [] addr = \h4017 ->
           [bus |-> b, v |-> 0, fault |-> "none"]
      [] addr >= \h4018 /\ addr <= \h7FFF ->
           [bus |-> b, v |-> 0, fault |-> "none"]
      [] addr >= \h8000 ->
           [bus |-> b, v |-> read_prg_rom(b, addr), fault |-> "none"]

\* the 0x8000..=0xFFFF arm of Bus::mem_write: panic
Mut_write_prg_rom_stores(b, addr, data) ==
    [bus |-> [b EXCEPT !.cpu_vram = array_set(@, addr % \h0800, data)],
     fault |-> "rom_write"]
write_prg_rom(b, addr, data) == [bus |-> b, fault |-> "rom_write"]

\* the RAM arm of Bus::mem_write
Mut_mem_write_ram_unmirrored(b, addr, data) ==
    [bus |-> [b EXCEPT !.cpu_vram = array_set(@, addr, data)], fault |-> "none"]

\* the `for i in 0..256u16` loop of the 0x4014 arm of Bus::mem_write over
\* the n addresses hi + i, hi + i + 1, ...: the bus after the reads, the
\* bytes read into the buffer and the panic a read ends in, if any
RECURSIVE dma_fill(_, _, _, _)
dma_fill(b, hi, i, n) ==
    CASE n = 0 -> [bus |-> b, buffer |-> << >>, fault |-> "none"]
      [] n = 1 ->
           the({ [bus |-> r.bus, buffer |-> (i :> r.v), fault |-> r.fault]
               : r \in {Bus_mem_read(b, hi + i)} })
      [] OTHER ->
           the({ IF l.fault # "none" THEN l
                 ELSE the({ [bus    |-> r.bus,
                             buffer |-> l.buffer @@ r.buffer,
                             fault  |-> r.fault]
                          : r \in {dma_fill(l.bus, hi, i + n \div 2, n - n \div 2)} })
               : l \in {dma_fill(b, hi, i, n \div 2)} })

\* the 0x4014 arm of Bus::mem_write
Mut_dma_page_zero(b, data) ==
    the({ IF f.fault # "none" THEN [bus |-> f.bus, fault |-> f.fault]
          ELSE [bus |-> [f.bus EXCEPT !.ppu = write_oam_dma(@, f.buffer)],
                fault |-> "none"]
        : f \in {dma_fill(b, 0, 0, 256)} })
oam_dma(b, data) ==
    the({ IF f.fault # "none" THEN [bus |-> f.bus, fault |-> f.fault]
          ELSE [bus |-> [f.bus EXCEPT !.ppu = write_oam_dma(@, f.buffer)],
                fault |-> "none"]
        : f \in {dma_fill(b, data * 256, 0, 256)} })

\* Bus::mem_write, for the arms over state the model holds: RAM, Control,
\* Mask, OAM Address, OAM Data, Scroll, Address, Data, OAM DMA, the register
\* mirrors, APU, joypad 2, PRG ROM (panic) and the unmapped space
RECURSIVE Bus_mem_write(_, _, _)
Bus_mem_write(b, addr, data) ==
    CASE addr <= \h1FFF ->
           [bus |-> [b EXCEPT !.cpu_vram = array_set(@, addr % \h0800, data)],
            fault |-> "none"]
      [] addr = \h2000 ->
           [bus |-> [b EXCEPT !.ppu = write_to_ctrl(@, data)], fault |-> "none"]
      [] addr = \h2001 ->
           [bus |-> [b EXCEPT !.ppu = write_to_mask(@, data)], fault |-> "none"]
      [] addr = \h2003 ->
           [bus |-> [b EXCEPT !.ppu = write_to_oam_addr(@, data)], fault |-> "none"]
      [] addr = \h2004 ->
           [bus |-> [b EXCEPT !.ppu = write_to_oam_data(@, data)], fault |-> "none"]
      [] addr = \h2005 ->
           [bus |-> [b EXCEPT !.ppu = write_to_scroll(@, data)], fault |-> "none"]
      [] addr = \h2006 ->
           [bus |-> [b EXCEPT !.ppu = write_to_ppu_addr(@, data)], fault |-> "none"]
      [] addr = \h2007 ->
           the({ [bus |-> [b EXCEPT !.ppu = r.ppu], fault |-> r.fault]
               : r \in {write_to_data(b.ppu, data)} })
      [] addr >= \h2008 /\ addr <= \h3FFF ->
           Bus_mem_write(b, \h2000 + (addr % 8), data)
      [] (addr >= \h4000 /\ addr <= \h4013) \/ addr = \h4015 \/ addr = \h4017 ->
           [bus |-> b, fault |-> "none"]
      [] addr = \h4014 ->
           oam_dma(b, data)
      [] addr >= \h4018 /\ addr <= \h7FFF ->
           [bus |-> b, fault |-> "none"]
      [] addr >= \h8000 ->
           write_prg_rom(b, addr, data)

(***************************************************************************)
(* CPU (src/src/cpu.rs).  A machine m is the CPU register file, the bus it *)
(* owns, the fault raised so far and the build's overflow-check setting.   *)
(***************************************************************************)
\* cpu.rs: STACK = 0x0100, STACK_RESET = 0xfd
STACK == 256
STACK_RESET == 253
CARRY_FLAG == 1
ZERO_FLAG == 2
INTERRUPT_DISABLE == 4
DECIMAL_MODE_FLAG == 8
BREAK_COMMAND == 16
BREAK2_COMMAND == 32
OVERFLOW_FLAG == 64
NEGATIVE_FLAG == 128
U16Max == 65535

CPU_new ==
    [ register_a      |-> 0,
      register_x      |-> 0,
      register_y      |-> 0,
      status          |-> 36,
      program_counter |-> 0,
      stack_pointer   |-> STACK_RESET ]

\* a u16 addition `x + y`: panics on overflow with overflow checks, wraps
\* without them
add_u16(m, x, y) ==
    [m |-> IF x + y > U16Max /\ m.checks THEN [m EXCEPT !.fault = "overflow"] ELSE m,
     v |-> (x + y) % (U16Max + 1)]
wrapping_add_u16(x, y) == (x + y) % (U16Max + 1)
wrapping_add_u8(x, y) == (x + y) % (U8Max + 1)

\* impl Mem for CPU: mem_read / mem_write go to the bus
cpu_mem_read(m, addr) ==
    the({ [m |-> [m EXCEPT !.bus = r.bus,
                           !.fault = IF @ = "none" THEN r.fault ELSE @],
           v |-> r.v]
        : r \in {Bus_mem_read(m.bus, addr)} })
cpu_mem_write(m, addr, data) ==
    the({ [m EXCEPT !.bus = r.bus, !.fault = IF @ = "none" THEN r.fault ELSE @]
        : r \in {Bus_mem_write(m.bus, addr, data)} })

\* Mem::mem_read_u16
mem_read_u16(m, pos) ==
    the({ the({ the({
        [m |-> hi.m, v |-> hi.v * 256 + lo.v]
    : hi   \in {cpu_mem_read(pos1.m, pos1.v)} })
    : pos1 \in {add_u16(lo.m, pos, 1)} })
    : lo   \in {cpu_mem_read(m, pos)} })

\* `pos.wrapping_add(self.register_x) as u16` of the ZeroPage_X, ZeroPage_Y
\* and Indirect_X arms of CPU::get_absolute_address
Mut_zero_page_index_leaves_page(pos, index) == pos + index
zero_page_index(pos, index) == wrapping_add_u8(pos, index)

\* the pointer read of the Indirect_X and Indirect_Y arms: lo at ptr, hi at
\* ptr.wrapping_add(1), both in page 0
Mut_zero_page_pointer_crosses_page(m, ptr) ==
    the({ the({
        [m |-> hi.m, v |-> hi.v * 256 + lo.v]
    : hi \in {cpu_mem_read(lo.m, ptr + 1)} })
    : lo \in {cpu_mem_read(m, ptr)} })
zero_page_pointer(m, ptr) ==
    the({ the({
        [m |-> hi.m, v |-> hi.v * 256 + lo.v]
    : hi \in {cpu_mem_read(lo.m, wrapping_add_u8(ptr, 1))} })
    : lo \in {cpu_mem_read(m, ptr)} })

\* CPU::get_absolute_address
get_absolute_address(m, mode, addr) ==
    CASE mode = "Immediate" -> [m |-> m, v |-> m.cpu.program_counter]
      [] mode = "ZeroPage"  -> cpu_mem_read(m, addr)
      [] mode = "Absolute"  -> mem_read_u16(m, addr)
      [] mode = "ZeroPage_X" ->
           the({ [m |-> pos.m, v |-> zero_page_index(pos.v, pos.m.cpu.register_x)]
               : pos \in {cpu_mem_read(m, addr)} })
      [] mode = "ZeroPage_Y" ->
           the({ [m |-> pos.m, v |-> zero_page_index(pos.v, pos.m.cpu.register_y)]
               : pos \in {cpu_mem_read(m, addr)} })
      [] mode = "Absolute_X" ->
           the({ [m |-> base.m, v |-> wrapping_add_u16(base.v, base.m.cpu.register_x)]
               : base \in {mem_read_u16(m, addr)} })
      [] mode = "Absolute_Y" ->
           the({ [m |-> base.m, v |-> wrapping_add_u16(base.v, base.m.cpu.register_y)]
               : base \in {mem_read_u16(m, addr)} })
      [] mode = "Indirect_X" ->
           the({ zero_page_pointer(base.m, zero_page_index(base.v, base.m.cpu.register_x))
               : base \in {cpu_mem_read(m, addr)} })
      [] mode = "Indirect_Y" ->
           the({ the({
               [m |-> deref_base.m,
                v |-> wrapping_add_u16(deref_base.v, deref_base.m.cpu.register_y)]
           : deref_base \in {zero_page_pointer(base.m, base.v)} })
           : base       \in {cpu_mem_read(m, addr)} })
      [] mode = "Indirect_jmp" ->
           the({ IF ptr.v % 256 = \hFF
                 THEN the({ the({
                          [m |-> hi.m, v |-> hi.v * 256 + lo.v]
                      : hi \in {cpu_mem_read(lo.m, ptr.v - \hFF)} })
                      : lo \in {cpu_mem_read(ptr.m, ptr.v)} })
                 ELSE mem_read_u16(ptr.m, ptr.v)
               : ptr \in {mem_read_u16(m, m.cpu.program_counter)} })
      [] mode = "NoneAddressing" ->
           [m |-> [m EXCEPT !.fault = IF @ = "none" THEN "mode_not_supported" ELSE @],
            v |-> 0]

\* CPU::get_operand_address
get_operand_address(m, mode) ==
    IF mode = "Immediate"
    THEN [m |-> m, v |-> m.cpu.program_counter]
    ELSE get_absolute_address(m, mode, m.cpu.program_counter)

\* CPU::update_zero_and_negative_flags
update_zero_and_negative_flags(status, result) ==
    set(set(status, ZERO_FLAG, result = 0), NEGATIVE_FLAG, contains(result, NEGATIVE_FLAG))

\* CPU::set_register_a
set_register_a(m, value) ==
    [m EXCEPT !.cpu.register_a = value,
              !.cpu.status = update_zero_and_negative_flags(@, value)]

\* CPU::lda, ldx, sta, inx, jmp
lda(m, mode) ==
    the({ the({
        set_register_a(value.m, value.v)
    : value \in {cpu_mem_read(addr.m, addr.v)} })
    : addr  \in {get_operand_address(m, mode)} })
ldx(m, mode) ==
    the({ the({
        [value.m EXCEPT !.cpu.register_x = value.v,
                        !.cpu.status = update_zero_and_negative_flags(@, value.v)]
    : value \in {cpu_mem_read(addr.m, addr.v)} })
    : addr  \in {get_operand_address(m, mode)} })
sta(m, mode) ==
    the({ cpu_mem_write(addr.m, addr.v, addr.m.cpu.register_a)
        : addr \in {get_operand_address(m, mode)} })
inx(m) ==
    the({ [m EXCEPT !.cpu.register_x = x,
                    !.cpu.status = update_zero_and_negative_flags(@, x)]
        : x \in {wrapping_add_u8(m.cpu.register_x, 1)} })
jmp(m, mode) ==
    the({ [addr.m EXCEPT !.cpu.program_counter = addr.v]
        : addr \in {get_operand_address(m, mode)} })

\* CPU::branch: the operand byte as i8, sign-extended to u16
sign_extend(b) == IF b >= 128 THEN b + (U16Max + 1 - 256) ELSE b
branch(m) ==
    the({ [off.m EXCEPT !.cpu.program_counter =
              wrapping_add_u16(wrapping_add_u16(@, 1), sign_extend(off.v))]
        : off \in {cpu_mem_read(m, m.cpu.program_counter)} })
\* CPU::bne
bne(m) == IF ~contains(m.cpu.status, ZERO_FLAG) THEN branch(m) ELSE m

\* the bits of a u8 and the operators `^` and `&` on u8
bit_of(x, i) == (x \div (2 ^ i)) % 2
xor_u8(x, y) ==
      ((bit_of(x, 0) + bit_of(y, 0)) % 2)       + ((bit_of(x, 1) + bit_of(y, 1)) % 2) * 2
    + ((bit_of(x, 2) + bit_of(y, 2)) % 2) * 4   + ((bit_of(x, 3) + bit_of(y, 3)) % 2) * 8
    + ((bit_of(x, 4) + bit_of(y, 4)) % 2) * 16  + ((bit_of(x, 5) + bit_of(y, 5)) % 2) * 32
    + ((bit_of(x, 6) + bit_of(y, 6)) % 2) * 64  + ((bit_of(x, 7) + bit_of(y, 7)) % 2) * 128
and_u8(x, y) ==
      (bit_of(x, 0) * bit_of(y, 0))       + (bit_of(x, 1) * bit_of(y, 1)) * 2
    + (bit_of(x, 2) * bit_of(y, 2)) * 4   + (bit_of(x, 3) * bit_of(y, 3)) * 8
    + (bit_of(x, 4) * bit_of(y, 4)) * 16  + (bit_of(x, 5) * bit_of(y, 5)) * 32
    + (bit_of(x, 6) * bit_of(y, 6)) * 64  + (bit_of(x, 7) * bit_of(y, 7)) * 128
wrapping_sub_u8(x, y) == (x + (U8Max + 1) - y) % (U8Max + 1)
\* (value as i8).wrapping_neg() as u8: the two's complement of the byte
wrapping_neg_i8(value) == ((U8Max + 1) - value) % (U8Max + 1)

\* the sum without the carry input
Mut_add_without_carry_in(m, value) ==
    the({ set_register_a(
              [m EXCEPT !.cpu.status =
                  set(set(@, CARRY_FLAG, result > \hFF), OVERFLOW_FLAG,
                      and_u8(and_u8(xor_u8(value, result % 256),
                                    xor_u8(result % 256, m.cpu.register_a)),
                             NEGATIVE_FLAG) # 0)],
              result % 256)
        : result \in {m.cpu.register_a + value} })

\* CPU::add_to_register_a
add_to_register_a(m, value) ==
    the({ the({
        set_register_a(
            [m EXCEPT !.cpu.status =
                set(set(@, CARRY_FLAG, result > \hFF), OVERFLOW_FLAG,
                    and_u8(and_u8(xor_u8(value, tmp), xor_u8(tmp, m.cpu.register_a)),
                           NEGATIVE_FLAG) # 0)],
            tmp)
    : tmp    \in {result % (U8Max + 1)} })
    : result \in {m.cpu.register_a + value
                  + (IF and_u8(m.cpu.status, CARRY_FLAG) = CARRY_FLAG THEN 1 ELSE 0)} })

\* CPU::adc
adc(m, mode) ==
    the({ the({
        add_to_register_a(value.m, value.v)
    : value \in {cpu_mem_read(addr.m, addr.v)} })
    : addr  \in {get_operand_address(m, mode)} })

\* the subtrahend negated, without the `- 1` that makes it the complement
Mut_sbc_twos_complement(m, mode) ==
    the({ the({
        add_to_register_a(value.m, wrapping_neg_i8(value.v))
    : value \in {cpu_mem_read(addr.m, addr.v)} })
    : addr  \in {get_operand_address(m, mode)} })

\* CPU::sbc
sbc(m, mode) ==
    the({ the({
        add_to_register_a(value.m, wrapping_sub_u8(wrapping_neg_i8(value.v), 1))
    : value \in {cpu_mem_read(addr.m, addr.v)} })
    : addr  \in {get_operand_address(m, mode)} })

\* the operator `|` on u8
or_u8(x, y) == x + y - and_u8(x, y)

\* CPU::update_negative_flags
update_negative_flags(status, result) ==
    set(status, NEGATIVE_FLAG, result \div 128 = 1)

\* the operators `<< 1` and `>> 1` on u8
shl_u8(value) == (value * 2) % (U8Max + 1)
shr_u8(value) == value \div 2

\* CPU::asl_accumulator, CPU::asl
asl_accumulator(m) ==
    set_register_a([m EXCEPT !.cpu.status = set(@, CARRY_FLAG, m.cpu.register_a \div 128 = 1)],
                   shl_u8(m.cpu.register_a))
asl(m, mode) ==
    the({ the({ the({ the({
        [m |-> [w EXCEPT !.cpu.status = update_zero_and_negative_flags(@, data)], v |-> data]
    : w     \in {cpu_mem_write(
                    [value.m EXCEPT !.cpu.status = set(@, CARRY_FLAG, value.v \div 128 = 1)],
                    addr.v, data)} })
    : data  \in {shl_u8(value.v)} })
    : value \in {cpu_mem_read(addr.m, addr.v)} })
    : addr  \in {get_operand_address(m, mode)} })

\* CPU::lsr_accumulator, CPU::lsr
lsr_accumulator(m) ==
    set_register_a([m EXCEPT !.cpu.status = set(@, CARRY_FLAG, and_u8(m.cpu.register_a, 1) = 1)],
                   shr_u8(m.cpu.register_a))
lsr(m, mode) ==
    the({ the({ the({ the({
        [m |-> [w EXCEPT !.cpu.status = update_zero_and_negative_flags(@, data)], v |-> data]
    : w     \in {cpu_mem_write(
                    [value.m EXCEPT !.cpu.status = set(@, CARRY_FLAG, and_u8(value.v, 1) = 1)],
                    addr.v, data)} })
    : data  \in {shr_u8(value.v)} })
    : value \in {cpu_mem_read(addr.m, addr.v)} })
    : addr  \in {get_operand_address(m, mode)} })

\* CPU::rol_accumulator, CPU::rol (the memory form ends with
\* update_negative_flags: Zero is left as it was)
rol_accumulator(m) ==
    set_register_a([m EXCEPT !.cpu.status = set(@, CARRY_FLAG, m.cpu.register_a \div 128 = 1)],
                   IF and_u8(m.cpu.status, CARRY_FLAG) # 0
                   THEN or_u8(shl_u8(m.cpu.register_a), 1)
                   ELSE shl_u8(m.cpu.register_a))
rol(m, mode) ==
    the({ the({ the({ the({
        [m |-> [w EXCEPT !.cpu.status = update_negative_flags(@, data)], v |-> data]
    : w     \in {cpu_mem_write(
                    [value.m EXCEPT !.cpu.status = set(@, CARRY_FLAG, value.v \div 128 = 1)],
                    addr.v, data)} })
    : data  \in {IF and_u8(value.m.cpu.status, CARRY_FLAG) # 0
                 THEN or_u8(shl_u8(value.v), 1)
                 ELSE shl_u8(value.v)} })
    : value \in {cpu_mem_read(addr.m, addr.v)} })
    : addr  \in {get_operand_address(m, mode)} })

\* CPU::ror_accumulator, CPU::ror (the memory form ends with
\* update_negative_flags: Zero is left as it was)
ror_accumulator(m) ==
    set_register_a([m EXCEPT !.cpu.status = set(@, CARRY_FLAG, and_u8(m.cpu.register_a, 1) = 1)],
                   IF and_u8(m.cpu.status, CARRY_FLAG) = CARRY_FLAG
                   THEN or_u8(shr_u8(m.cpu.register_a), \h80)
                   ELSE shr_u8(m.cpu.register_a))
ror(m, mode) ==
    the({ the({ the({ the({
        [m |-> [w EXCEPT !.cpu.status = update_negative_flags(@, data)], v |-> data]
    : w     \in {cpu_mem_write(
                    [value.m EXCEPT !.cpu.status = set(@, CARRY_FLAG, and_u8(value.v, 1) = 1)],
                    addr.v, data)} })
    : data  \in {IF and_u8(value.m.cpu.status, CARRY_FLAG) = 1
                 THEN or_u8(shr_u8(value.v), NEGATIVE_FLAG)
                 ELSE and_u8(shr_u8(value.v), U8Max - NEGATIVE_FLAG)} })
    : value \in {cpu_mem_read(addr.m, addr.v)} })
    : addr  \in {get_operand_address(m, mode)} })

\* CPU::and, CPU::ora, CPU::eor
and(m, mode) ==
    the({ the({
        set_register_a(value.m, and_u8(value.v, value.m.cpu.register_a))
    : value \in {cpu_mem_read(addr.m, addr.v)} })
    : addr  \in {get_operand_address(m, mode)} })
ora(m, mode) ==
    the({ the({
        set_register_a(value.m, or_u8(value.v, value.m.cpu.register_a))
    : value \in {cpu_mem_read(addr.m, addr.v)} })
    : addr  \in {get_operand_address(m, mode)} })
eor(m, mode) ==
    the({ the({
        set_register_a(value.m, xor_u8(value.m.cpu.register_a, value.v))
    : value \in {cpu_mem_read(addr.m, addr.v)} })
    : addr  \in {get_operand_address(m, mode)} })

\* CPU::dec, CPU::inc
dec(m, mode) ==
    the({ the({ the({ the({
        [w EXCEPT !.cpu.status = update_zero_and_negative_flags(@, res)]
    : w     \in {cpu_mem_write(value.m, addr.v, res)} })
    : res   \in {wrapping_sub_u8(value.v, 1)} })
    : value \in {cpu_mem_read(addr.m, addr.v)} })
    : addr  \in {get_operand_address(m, mode)} })
inc(m, mode) ==
    the({ the({ the({ the({
        [w EXCEPT !.cpu.status = update_zero_and_negative_flags(@, res)]
    : w     \in {cpu_mem_write(value.m, addr.v, res)} })
    : res   \in {wrapping_add_u8(value.v, 1)} })
    : value \in {cpu_mem_read(addr.m, addr.v)} })
    : addr  \in {get_operand_address(m, mode)} })

\* CPU::dcp: Carry is set when res <= A and is never cleared
dcp(m, mode) ==
    the({ the({ the({ the({
        [w EXCEPT !.cpu.status =
            update_zero_and_negative_flags(
                IF res <= w.cpu.register_a THEN insert(@, CARRY_FLAG) ELSE @,
                wrapping_sub_u8(w.cpu.register_a, res))]
    : w     \in {cpu_mem_write(value.m, addr.v, res)} })
    : res   \in {wrapping_sub_u8(value.v, 1)} })
    : value \in {cpu_mem_read(addr.m, addr.v)} })
    : addr  \in {get_operand_address(m, mode)} })

\* CPU::isb
isb(m, mode) ==
    the({ the({ the({
        cpu_mem_write(
            add_to_register_a(
                [value.m EXCEPT !.cpu.status = update_zero_and_negative_flags(@, res)],
                wrapping_sub_u8(wrapping_neg_i8(res), 1)),
            addr.v, res)
    : res   \in {wrapping_add_u8(value.v, 1)} })
    : value \in {cpu_mem_read(addr.m, addr.v)} })
    : addr  \in {get_operand_address(m, mode)} })

\* CPU::rla, CPU::rra, CPU::slo, CPU::sre
rla(m, mode) ==
    the({ set_register_a(value.m, and_u8(value.v, value.m.cpu.register_a))
        : value \in {rol(m, mode)} })
rra(m, mode) ==
    the({ add_to_register_a(value.m, value.v) : value \in {ror(m, mode)} })
slo(m, mode) ==
    the({ set_register_a(value.m, or_u8(value.m.cpu.register_a, value.v))
        : value \in {asl(m, mode)} })
sre(m, mode) ==
    the({ set_register_a(value.m, xor_u8(value.m.cpu.register_a, value.v))
        : value \in {lsr(m, mode)} })

\* CPU::clc, CPU::sec
clc(m) ==
    IF and_u8(m.cpu.status, CARRY_FLAG) = CARRY_FLAG
    THEN [m EXCEPT !.cpu.status = @ - 1]
    ELSE m
sec(m) == [m EXCEPT !.cpu.status = insert(@, CARRY_FLAG)]

\* CPU::cld, cli, clv, sed, sei
cld(m) ==
    IF and_u8(m.cpu.status, DECIMAL_MODE_FLAG) = DECIMAL_MODE_FLAG
    THEN [m EXCEPT !.cpu.status = @ - DECIMAL_MODE_FLAG]
    ELSE m
cli(m) ==
    IF and_u8(m.cpu.status, INTERRUPT_DISABLE) = INTERRUPT_DISABLE
    THEN [m EXCEPT !.cpu.status = @ - INTERRUPT_DISABLE]
    ELSE m
clv(m) ==
    IF and_u8(m.cpu.status, OVERFLOW_FLAG) = OVERFLOW_FLAG
    THEN [m EXCEPT !.cpu.status = @ - OVERFLOW_FLAG]
    ELSE m
sed(m) == [m EXCEPT !.cpu.status = or_u8(@, DECIMAL_MODE_FLAG)]
sei(m) == [m EXCEPT !.cpu.status = or_u8(@, INTERRUPT_DISABLE)]

\* carry on strictly greater only
Mut_compare_strict(m, cmp_data, value) ==
    [m EXCEPT !.cpu.status =
        update_zero_and_negative_flags(set(@, CARRY_FLAG, cmp_data > value),
                                       wrapping_sub_u8(cmp_data, value))]

\* CPU::compare
compare(m, cmp_data, value) ==
    [m EXCEPT !.cpu.status =
        update_zero_and_negative_flags(set(@, CARRY_FLAG, cmp_data >= value),
                                       wrapping_sub_u8(cmp_data, value))]

\* CPU::cmp, CPU::cpx, CPU::cpy
cmp(m, mode) ==
    the({ the({
        compare(value.m, value.m.cpu.register_a, value.v)
    : value \in {cpu_mem_read(addr.m, addr.v)} })
    : addr  \in {get_operand_address(m, mode)} })
cpx(m, mode) ==
    the({ the({
        compare(value.m, value.m.cpu.register_x, value.v)
    : value \in {cpu_mem_read(addr.m, addr.v)} })
    : addr  \in {get_operand_address(m, mode)} })
cpy(m, mode) ==
    the({ the({
        compare(value.m, value.m.cpu.register_y, value.v)
    : value \in {cpu_mem_read(addr.m, addr.v)} })
    : addr  \in {get_operand_address(m, mode)} })

\* a push that stops at the bottom of the page instead of wrapping
Mut_stack_push_saturating(m, data) ==
    the({ [w EXCEPT !.cpu.stack_pointer = IF @ = 0 THEN 0 ELSE @ - 1]
        : w \in {cpu_mem_write(m, STACK + m.cpu.stack_pointer, data)} })

\* CPU::stack_push
stack_push(m, data) ==
    the({ [w EXCEPT !.cpu.stack_pointer = wrapping_sub_u8(@, 1)]
        : w \in {cpu_mem_write(m, STACK + m.cpu.stack_pointer, data)} })

\* CPU::stack_pop
stack_pop(m) ==
    the({ cpu_mem_read([m EXCEPT !.cpu.stack_pointer = sp], STACK + sp)
        : sp \in {wrapping_add_u8(m.cpu.stack_pointer, 1)} })

\* CPU::pha, CPU::pla
pha(m) == stack_push(m, m.cpu.register_a)
pla(m) ==
    the({ set_register_a(value.m, value.v) : value \in {stack_pop(m)} })

\* CPU::stack_pop_u16
stack_pop_u16(m) ==
    the({ the({
        [m |-> hi.m, v |-> hi.v * 256 + lo.v]
    : hi \in {stack_pop(lo.m)} })
    : lo \in {stack_pop(m)} })

\* CPU::stack_push_u16
stack_push_u16(m, data) == stack_push(stack_push(m, data \div 256), data % 256)

\* CPU::jsr: `self.program_counter + 2 - 1` is pushed
Mut_jsr_pushes_next_instruction(m, mode) ==
    the({ the({
        [addr.m EXCEPT !.cpu.program_counter = addr.v]
    : addr \in {get_operand_address(stack_push_u16(sum.m, sum.v), mode)} })
    : sum  \in {add_u16(m, m.cpu.program_counter, 2)} })
jsr(m, mode) ==
    the({ the({
        [addr.m EXCEPT !.cpu.program_counter = addr.v]
    : addr \in {get_operand_address(
                    stack_push_u16(sum.m, (sum.v + U16Max) % (U16Max + 1)), mode)} })
    : sum  \in {add_u16(m, m.cpu.program_counter, 2)} })

\* CPU::rts
Mut_rts_resumes_at_popped(m) ==
    the({ [popped.m EXCEPT !.cpu.program_counter = popped.v]
        : popped \in {stack_pop_u16(m)} })
rts(m) ==
    the({ the({
        [pc.m EXCEPT !.cpu.program_counter = pc.v]
    : pc     \in {add_u16(popped.m, popped.v, 1)} })
    : popped \in {stack_pop_u16(m)} })

\* CPU::php
php(m) == stack_push(m, insert(insert(m.cpu.status, BREAK_COMMAND), BREAK2_COMMAND))

\* a pull that takes the popped byte as it is
Mut_plp_keeps_popped_byte(m) ==
    the({ [value.m EXCEPT !.cpu.status = value.v] : value \in {stack_pop(m)} })

\* CPU::plp
plp(m) ==
    the({ [value.m EXCEPT !.cpu.status =
              insert(remove(value.v, BREAK_COMMAND), BREAK2_COMMAND)]
        : value \in {stack_pop(m)} })

\* CPU::rti
Mut_rti_keeps_popped_byte(m) ==
    the({ the({
        [pc.m EXCEPT !.cpu.program_counter = pc.v]
    : pc    \in {stack_pop_u16([value.m EXCEPT !.cpu.status = value.v])} })
    : value \in {stack_pop(m)} })
rti(m) ==
    the({ the({
        [pc.m EXCEPT !.cpu.program_counter = pc.v]
    : pc    \in {stack_pop_u16([value.m EXCEPT !.cpu.status =
                     insert(remove(value.v, BREAK_COMMAND), BREAK2_COMMAND)])} })
    : value \in {stack_pop(m)} })


\* CPU::brk: the empty function
brk(m) == m

(***************************************************************************)
(* The opcode table and the arms of the dispatch of the run loop.          *)
(***************************************************************************)
\* opcodes.rs: CPU_OPS_CODES, in the order of the source
CPU_OPS_CODES == <<
    [code |-> \h69, mnemonic |-> "ADC", len |-> 2, cycles |-> 2, mode |-> "Immediate"],
    [code |-> \h65, mnemonic |-> "ADC", len |-> 2, cycles |-> 3, mode |-> "ZeroPage"],
    [code |-> \h75, mnemonic |-> "ADC", len |-> 2, cycles |-> 4, mode |-> "ZeroPage_X"],
    [code |-> \h6D, mnemonic |-> "ADC", len |-> 3, cycles |-> 4, mode |-> "Absolute"],
    [code |-> \h7D, mnemonic |-> "ADC", len |-> 3, cycles |-> 4, mode |-> "Absolute_X"],
    [code |-> \h79, mnemonic |-> "ADC", len |-> 3, cycles |-> 4, mode |-> "Absolute_Y"],
    [code |-> \h61, mnemonic |-> "ADC", len |-> 2, cycles |-> 6, mode |-> "Indirect_X"],
    [code |-> \h71, mnemonic |-> "ADC", len |-> 2, cycles |-> 5, mode |-> "Indirect_Y"],
    [code |-> \h29, mnemonic |-> "AND", len |-> 2, cycles |-> 2, mode |-> "Immediate"],
    [code |-> \h25, mnemonic |-> "AND", len |-> 2, cycles |-> 3, mode |-> "ZeroPage"],
    [code |-> \h35, mnemonic |-> "AND", len |-> 2, cycles |-> 4, mode |-> "ZeroPage_X"],
    [code |-> \h2D, mnemonic |-> "AND", len |-> 3, cycles |-> 4, mode |-> "Absolute"],
    [code |-> \h3D, mnemonic |-> "AND", len |-> 3, cycles |-> 4, mode |-> "Absolute_X"],
    [code |-> \h39, mnemonic |-> "AND", len |-> 3, cycles |-> 4, mode |-> "Absolute_Y"],
    [code |-> \h21, mnemonic |-> "AND", len |-> 2, cycles |-> 6, mode |-> "Indirect_X"],
    [code |-> \h31, mnemonic |-> "AND", len |-> 2, cycles |-> 5, mode |-> "Indirect_Y"],
    [code |-> \h0A, mnemonic |-> "ASL", len |-> 1, cycles |-> 2, mode |-> "NoneAddressing"],
    [code |-> \h06, mnemonic |-> "ASL", len |-> 2, cycles |-> 5, mode |-> "ZeroPage"],
    [code |-> \h16, mnemonic |-> "ASL", len |-> 2, cycles |-> 6, mode |-> "ZeroPage_X"],
    [code |-> \h0E, mnemonic |-> "ASL", len |-> 3, cycles |-> 6, mode |-> "Absolute"],
    [code |-> \h1E, mnemonic |-> "ASL", len |-> 3, cycles |-> 7, mode |-> "Absolute_X"],
    [code |-> \h90, mnemonic |-> "BCC", len |-> 2, cycles |-> 2, mode |-> "NoneAddressing"],
    [code |-> \hB0, mnemonic |-> "BCS", len |-> 2, cycles |-> 2, mode |-> "NoneAddressing"],
    [code |-> \hF0, mnemonic |-> "BEQ", len |-> 2, cycles |-> 2, mode |-> "NoneAddressing"],
    [code |-> \h24, mnemonic |-> "BIT", len |-> 2, cycles |-> 3, mode |-> "ZeroPage"],
    [code |-> \h2C, mnemonic |-> "BIT", len |-> 3, cycles |-> 4, mode |-> "Absolute"],
    [code |-> \h30, mnemonic |-> "BMI", len |-> 2, cycles |-> 2, mode |-> "NoneAddressing"],
    [code |-> \hD0, mnemonic |-> "BNE", len |-> 2, cycles |-> 2, mode |-> "NoneAddressing"],
    [code |-> \h10, mnemonic |-> "BPL", len |-> 2, cycles |-> 2, mode |-> "NoneAddressing"],
    [code |-> \h00, mnemonic |-> "BRK", len |-> 1, cycles |-> 7, mode |-> "NoneAddressing"],
    [code |-> \h50, mnemonic |-> "BVC", len |-> 2, cycles |-> 2, mode |-> "NoneAddressing"],
    [code |-> \h70, mnemonic |-> "BVS", len |-> 2, cycles |-> 2, mode |-> "NoneAddressing"],
    [code |-> \h18, mnemonic |-> "CLC", len |-> 1, cycles |-> 2, mode |-> "NoneAddressing"],
    [code |-> \hD8, mnemonic |-> "CLD", len |-> 1, cycles |-> 2, mode |-> "NoneAddressing"],
    [code |-> \h58, mnemonic |-> "CLI", len |-> 1, cycles |-> 2, mode |-> "NoneAddressing"],
    [code |-> \hB8, mnemonic |-> "CLV", len |-> 1, cycles |-> 2, mode |-> "NoneAddressing"],
    [code |-> \hC9, mnemonic |-> "CMP", len |-> 2, cycles |-> 2, mode |-> "Immediate"],
    [code |-> \hC5, mnemonic |-> "CMP", len |-> 2, cycles |-> 3, mode |-> "ZeroPage"],
    [code |-> \hD5, mnemonic |-> "CMP", len |-> 2, cycles |-> 4, mode |-> "ZeroPage_X"],
    [code |-> \hCD, mnemonic |-> "CMP", len |-> 3, cycles |-> 4, mode |-> "Absolute"],
    [code |-> \hDD, mnemonic |-> "CMP", len |-> 3, cycles |-> 4, mode |-> "Absolute_X"],
    [code |-> \hD9, mnemonic |-> "CMP", len |-> 3, cycles |-> 4, mode |-> "Absolute_Y"],
    [code |-> \hC1, mnemonic |-> "CMP", len |-> 2, cycles |-> 6, mode |-> "Indirect_X"],
    [code |-> \hD1, mnemonic |-> "CMP", len |-> 2, cycles |-> 5, mode |-> "Indirect_Y"],
    [code |-> \hE0, mnemonic |-> "CPX", len |-> 2, cycles |-> 2, mode |-> "Immediate"],
    [code |-> \hE4, mnemonic |-> "CPX", len |-> 2, cycles |-> 3, mode |-> "ZeroPage"],
    [code |-> \hEC, mnemonic |-> "CPX", len |-> 3, cycles |-> 4, mode |-> "Absolute"],
    [code |-> \hC0, mnemonic |-> "CPY", len |-> 2, cycles |-> 2, mode |-> "Immediate"],
    [code |-> \hC4, mnemonic |-> "CPY", len |-> 2, cycles |-> 3, mode |-> "ZeroPage"],
    [code |-> \hCC, mnemonic |-> "CPY", len |-> 3, cycles |-> 4, mode |-> "Absolute"],
    [code |-> \hC6, mnemonic |-> "DEC", len |-> 2, cycles |-> 5, mode |-> "ZeroPage"],
    [code |-> \hD6, mnemonic |-> "DEC", len |-> 2, cycles |-> 6, mode |-> "ZeroPage_X"],
    [code |-> \hCE, mnemonic |-> "DEC", len |-> 3, cycles |-> 6, mode |-> "Absolute"],
    [code |-> \hDE, mnemonic |-> "DEC", len |-> 3, cycles |-> 7, mode |-> "Absolute_X"],
    [code |-> \hCA, mnemonic |-> "DEX", len |-> 1, cycles |-> 2, mode |-> "NoneAddressing"],
    [code |-> \h88, mnemonic |-> "DEY", len |-> 1, cycles |-> 2, mode |-> "NoneAddressing"],
    [code |-> \h49, mnemonic |-> "EOR", len |-> 2, cycles |-> 2, mode |-> "Immediate"],
    [code |-> \h45, mnemonic |-> "EOR", len |-> 2, cycles |-> 3, mode |-> "ZeroPage"],
    [code |-> \h55, mnemonic |-> "EOR", len |-> 2, cycles |-> 4, mode |-> "ZeroPage_X"],
    [code |-> \h4D, mnemonic |-> "EOR", len |-> 3, cycles |-> 4, mode |-> "Absolute"],
    [code |-> \h5D, mnemonic |-> "EOR", len |-> 3, cycles |-> 4, mode |-> "Absolute_X"],
    [code |-> \h59, mnemonic |-> "EOR", len |-> 3, cycles |-> 4, mode |-> "Absolute_Y"],
    [code |-> \h41, mnemonic |-> "EOR", len |-> 2, cycles |-> 6, mode |-> "Indirect_X"],
    [code |-> \h51, mnemonic |-> "EOR", len |-> 2, cycles |-> 5, mode |-> "Indirect_Y"],
    [code |-> \hE6, mnemonic |-> "INC", len |-> 2, cycles |-> 5, mode |-> "ZeroPage"],
    [code |-> \hF6, mnemonic |-> "INC", len |-> 2, cycles |-> 6, mode |-> "ZeroPage_X"],
    [code |-> \hEE, mnemonic |-> "INC", len |-> 3, cycles |-> 6, mode |-> "Absolute"],
    [code |-> \hFE, mnemonic |-> "INC", len |-> 3, cycles |-> 7, mode |-> "Absolute_X"],
    [code |-> \hE8, mnemonic |-> "INX", len |-> 1, cycles |-> 2, mode |-> "NoneAddressing"],
    [code |-> \hC8, mnemonic |-> "INY", len |-> 1, cycles |-> 2, mode |-> "NoneAddressing"],
    [code |-> \h4C, mnemonic |-> "JMP", len |-> 3, cycles |-> 3, mode |-> "Absolute"],
    [code |-> \h6C, mnemonic |-> "JMP", len |-> 3, cycles |-> 5, mode |-> "Indirect_jmp"],
    [code |-> \h20, mnemonic |-> "JSR", len |-> 3, cycles |-> 6, mode |-> "Absolute"],
    [code |-> \hA9, mnemonic |-> "LDA", len |-> 2, cycles |-> 2, mode |-> "Immediate"],
    [code |-> \hA5, mnemonic |-> "LDA", len |-> 2, cycles |-> 3, mode |-> "ZeroPage"],
    [code |-> \hB5, mnemonic |-> "LDA", len |-> 2, cycles |-> 4, mode |-> "ZeroPage_X"],
    [code |-> \hAD, mnemonic |-> "LDA", len |-> 3, cycles |-> 4, mode |-> "Absolute"],
    [code |-> \hBD, mnemonic |-> "LDA", len |-> 3, cycles |-> 4, mode |-> "Absolute_X"],
    [code |-> \hB9, mnemonic |-> "LDA", len |-> 3, cycles |-> 4, mode |-> "Absolute_Y"],
    [code |-> \hA1, mnemonic |-> "LDA", len |-> 2, cycles |-> 6, mode |-> "Indirect_X"],
    [code |-> \hB1, mnemonic |-> "LDA", len |-> 2, cycles |-> 5, mode |-> "Indirect_Y"],
    [code |-> \hA2, mnemonic |-> "LDX", len |-> 2, cycles |-> 2, mode |-> "Immediate"],
    [code |-> \hA6, mnemonic |-> "LDX", len |-> 2, cycles |-> 3, mode |-> "ZeroPage"],
    [code |-> \hB6, mnemonic |-> "LDX", len |-> 2, cycles |-> 4, mode |-> "ZeroPage_Y"],
    [code |-> \hAE, mnemonic |-> "LDX", len |-> 3, cycles |-> 4, mode |-> "Absolute"],
    [code |-> \hBE, mnemonic |-> "LDX", len |-> 3, cycles |-> 4, mode |-> "Absolute_Y"],
    [code |-> \hA0, mnemonic |-> "LDY", len |-> 2, cycles |-> 2, mode |-> "Immediate"],
    [code |-> \hA4, mnemonic |-> "LDY", len |-> 2, cycles |-> 3, mode |-> "ZeroPage"],
    [code |-> \hB4, mnemonic |-> "LDY", len |-> 2, cycles |-> 4, mode |-> "ZeroPage_X"],
    [code |-> \hAC, mnemonic |-> "LDY", len |-> 3, cycles |-> 4, mode |-> "Absolute"],
    [code |-> \hBC, mnemonic |-> "LDY", len |-> 3, cycles |-> 4, mode |-> "Absolute_X"],
    [code |-> \h4A, mnemonic |-> "LSR", len |-> 1, cycles |-> 2, mode |-> "NoneAddressing"],
    [code |-> \h46, mnemonic |-> "LSR", len |-> 2, cycles |-> 5, mode |-> "ZeroPage"],
    [code |-> \h56, mnemonic |-> "LSR", len |-> 2, cycles |-> 6, mode |-> "ZeroPage_X"],
    [code |-> \h4E, mnemonic |-> "LSR", len |-> 3, cycles |-> 6, mode |-> "Absolute"],
    [code |-> \h5E, mnemonic |-> "LSR", len |-> 3, cycles |-> 7, mode |-> "Absolute_X"],
    [code |-> \hEA, mnemonic |-> "NOP", len |-> 1, cycles |-> 2, mode |-> "NoneAddressing"],
    [code |-> \h09, mnemonic |-> "ORA", len |-> 2, cycles |-> 2, mode |-> "Immediate"],
    [code |-> \h05, mnemonic |-> "ORA", len |-> 2, cycles |-> 3, mode |-> "ZeroPage"],
    [code |-> \h15, mnemonic |-> "ORA", len |-> 2, cycles |-> 4, mode |-> "ZeroPage_X"],
    [code |-> \h0D, mnemonic |-> "ORA", len |-> 3, cycles |-> 4, mode |-> "Absolute"],
    [code |-> \h1D, mnemonic |-> "ORA", len |-> 3, cycles |-> 4, mode |-> "Absolute_X"],
    [code |-> \h19, mnemonic |-> "ORA", len |-> 3, cycles |-> 4, mode |-> "Absolute_Y"],
    [code |-> \h01, mnemonic |-> "ORA", len |-> 2, cycles |-> 6, mode |-> "Indirect_X"],
    [code |-> \h11, mnemonic |-> "ORA", len |-> 2, cycles |-> 5, mode |-> "Indirect_Y"],
    [code |-> \h48, mnemonic |-> "PHA", len |-> 1, cycles |-> 3, mode |-> "NoneAddressing"],
    [code |-> \h08, mnemonic |-> "PHP", len |-> 1, cycles |-> 3, mode |-> "NoneAddressing"],
    [code |-> \h68, mnemonic |-> "PLA", len |-> 1, cycles |-> 4, mode |-> "NoneAddressing"],
    [code |-> \h28, mnemonic |-> "PLP", len |-> 1, cycles |-> 4, mode |-> "NoneAddressing"],
    [code |-> \h2A, mnemonic |-> "ROL", len |-> 1, cycles |-> 2, mode |-> "NoneAddressing"],
    [code |-> \h26, mnemonic |-> "ROL", len |-> 2, cycles |-> 5, mode |-> "ZeroPage"],
    [code |-> \h36, mnemonic |-> "ROL", len |-> 2, cycles |-> 6, mode |-> "ZeroPage_X"],
    [code |-> \h2E, mnemonic |-> "ROL", len |-> 3, cycles |-> 6, mode |-> "Absolute"],
    [code |-> \h3E, mnemonic |-> "ROL", len |-> 3, cycles |-> 7, mode |-> "Absolute_X"],
    [code |-> \h6A, mnemonic |-> "ROR", len |-> 1, cycles |-> 2, mode |-> "NoneAddressing"],
    [code |-> \h66, mnemonic |-> "ROR", len |-> 2, cycles |-> 5, mode |-> "ZeroPage"],
    [code |-> \h76, mnemonic |-> "ROR", len |-> 2, cycles |-> 6, mode |-> "ZeroPage_X"],
    [code |-> \h6E, mnemonic |-> "ROR", len |-> 3, cycles |-> 6, mode |-> "Absolute"],
    [code |-> \h7E, mnemonic |-> "ROR", len |-> 3, cycles |-> 7, mode |-> "Absolute_X"],
    [code |-> \h40, mnemonic |-> "RTI", len |-> 1, cycles |-> 6, mode |-> "NoneAddressing"],
    [code |-> \h60, mnemonic |-> "RTS", len |-> 1, cycles |-> 6, mode |-> "NoneAddressing"],
    [code |-> \hE9, mnemonic |-> "SBC", len |-> 2, cycles |-> 2, mode |-> "Immediate"],
    [code |-> \hE5, mnemonic |-> "SBC", len |-> 2, cycles |-> 3, mode |-> "ZeroPage"],
    [code |-> \hF5, mnemonic |-> "SBC", len |-> 2, cycles |-> 4, mode |-> "ZeroPage_X"],
    [code |-> \hED, mnemonic |-> "SBC", len |-> 3, cycles |-> 4, mode |-> "Absolute"],
    [code |-> \hFD, mnemonic |-> "SBC", len |-> 3, cycles |-> 4, mode |-> "Absolute_X"],
    [code |-> \hF9, mnemonic |-> "SBC", len |-> 3, cycles |-> 4, mode |-> "Absolute_Y"],
    [code |-> \hE1, mnemonic |-> "SBC", len |-> 2, cycles |-> 6, mode |-> "Indirect_X"],
    [code |-> \hF1, mnemonic |-> "SBC", len |-> 2, cycles |-> 5, mode |-> "Indirect_Y"],
    [code |-> \h38, mnemonic |-> "SEC", len |-> 1, cycles |-> 2, mode |-> "NoneAddressing"],
    [code |-> \hF8, mnemonic |-> "SED", len |-> 1, cycles |-> 2, mode |-> "NoneAddressing"],
    [code |-> \h78, mnemonic |-> "SEI", len |-> 1, cycles |-> 2, mode |-> "NoneAddressing"],
    [code |-> \h85, mnemonic |-> "STA", len |-> 2, cycles |-> 3, mode |-> "ZeroPage"],
    [code |-> \h95, mnemonic |-> "STA", len |-> 2, cycles |-> 4, mode |-> "ZeroPage_X"],
    [code |-> \h8D, mnemonic |-> "STA", len |-> 3, cycles |-> 4, mode |-> "Absolute"],
    [code |-> \h9D, mnemonic |-> "STA", len |-> 3, cycles |-> 5, mode |-> "Absolute_X"],
    [code |-> \h99, mnemonic |-> "STA", len |-> 3, cycles |-> 5, mode |-> "Absolute_Y"],
    [code |-> \h81, mnemonic |-> "STA", len |-> 2, cycles |-> 6, mode |-> "Indirect_X"],
    [code |-> \h91, mnemonic |-> "STA", len |-> 2, cycles |-> 6, mode |-> "Indirect_Y"],
    [code |-> \h86, mnemonic |-> "STX", len |-> 2, cycles |-> 3, mode |-> "ZeroPage"],
    [code |-> \h96, mnemonic |-> "STX", len |-> 2, cycles |-> 4, mode |-> "ZeroPage_Y"],
    [code |-> \h8E, mnemonic |-> "STX", len |-> 3, cycles |-> 4, mode |-> "Absolute"],
    [code |-> \h84, mnemonic |-> "STY", len |-> 2, cycles |-> 3, mode |-> "ZeroPage"],
    [code |-> \h94, mnemonic |-> "STY", len |-> 2, cycles |-> 4, mode |-> "ZeroPage_X"],
    [code |-> \h8C, mnemonic |-> "STY", len |-> 3, cycles |-> 4, mode |-> "Absolute"],
    [code |-> \hAA, mnemonic |-> "TAX", len |-> 1, cycles |-> 2, mode |-> "NoneAddressing"],
    [code |-> \hA8, mnemonic |-> "TAY", len |-> 1, cycles |-> 2, mode |-> "NoneAddressing"],
    [code |-> \hBA, mnemonic |-> "TSX", len |-> 1, cycles |-> 2, mode |-> "NoneAddressing"],
    [code |-> \h8A, mnemonic |-> "TXA", len |-> 1, cycles |-> 2, mode |-> "NoneAddressing"],
    [code |-> \h9A, mnemonic |-> "TXS", len |-> 1, cycles |-> 2, mode |-> "NoneAddressing"],
    [code |-> \h98, mnemonic |-> "TYA", len |-> 1, cycles |-> 2, mode |-> "NoneAddressing"],
    [code |-> \h0B, mnemonic |-> "*ANC", len |-> 2, cycles |-> 2, mode |-> "Immediate"],
    [code |-> \h2B, mnemonic |-> "*ANC", len |-> 2, cycles |-> 2, mode |-> "Immediate"],
    [code |-> \h87, mnemonic |-> "*SAX", len |-> 2, cycles |-> 3, mode |-> "ZeroPage"],
    [code |-> \h97, mnemonic |-> "*SAX", len |-> 2, cycles |-> 4, mode |-> "ZeroPage_Y"],
    [code |-> \h83, mnemonic |-> "*SAX", len |-> 2, cycles |-> 6, mode |-> "Indirect_Y"],
    [code |-> \h8F, mnemonic |-> "*SAX", len |-> 3, cycles |-> 4, mode |-> "Absolute"],
    [code |-> \h6B, mnemonic |-> "*ARR", len |-> 2, cycles |-> 2, mode |-> "Immediate"],
    [code |-> \h4B, mnemonic |-> "*ASR", len |-> 2, cycles |-> 2, mode |-> "Immediate"],
    [code |-> \hAB, mnemonic |-> "*LXA", len |-> 2, cycles |-> 3, mode |-> "Immediate"],
    [code |-> \h9F, mnemonic |-> "*AHX", len |-> 3, cycles |-> 5, mode |-> "Absolute_Y"],
    [code |-> \h93, mnemonic |-> "*AHX", len |-> 2, cycles |-> 6, mode |-> "Indirect_Y"],
    [code |-> \hCB, mnemonic |-> "*AXS", len |-> 2, cycles |-> 2, mode |-> "Immediate"],
    [code |-> \hC7, mnemonic |-> "*DCP", len |-> 2, cycles |-> 5, mode |-> "ZeroPage"],
    [code |-> \hD7, mnemonic |-> "*DCP", len |-> 2, cycles |-> 6, mode |-> "ZeroPage_X"],
    [code |-> \hCF, mnemonic |-> "*DCP", len |-> 3, cycles |-> 6, mode |-> "Absolute"],
    [code |-> \hDF, mnemonic |-> "*DCP", len |-> 3, cycles |-> 7, mode |-> "Absolute_X"],
    [code |-> \hDB, mnemonic |-> "*DCP", len |-> 3, cycles |-> 7, mode |-> "Absolute_Y"],
    [code |-> \hC3, mnemonic |-> "*DCP", len |-> 2, cycles |-> 8, mode |-> "Indirect_X"],
    [code |-> \hD3, mnemonic |-> "*DCP", len |-> 2, cycles |-> 8, mode |-> "Indirect_Y"],
    [code |-> \h04, mnemonic |-> "*NOP", len |-> 2, cycles |-> 3, mode |-> "ZeroPage"],
    [code |-> \h14, mnemonic |-> "*NOP", len |-> 2, cycles |-> 4, mode |-> "ZeroPage_X"],
    [code |-> \h34, mnemonic |-> "*NOP", len |-> 2, cycles |-> 4, mode |-> "ZeroPage_X"],
    [code |-> \h44, mnemonic |-> "*NOP", len |-> 2, cycles |-> 3, mode |-> "ZeroPage"],
    [code |-> \h54, mnemonic |-> "*NOP", len |-> 2, cycles |-> 4, mode |-> "ZeroPage_X"],
    [code |-> \h64, mnemonic |-> "*NOP", len |-> 2, cycles |-> 3, mode |-> "ZeroPage"],
    [code |-> \h74, mnemonic |-> "*NOP", len |-> 2, cycles |-> 3, mode |-> "ZeroPage_X"],
    [code |-> \h80, mnemonic |-> "*NOP", len |-> 2, cycles |-> 3, mode |-> "Immediate"],
    [code |-> \h82, mnemonic |-> "*NOP", len |-> 2, cycles |-> 2, mode |-> "Immediate"],
    [code |-> \h89, mnemonic |-> "*NOP", len |-> 2, cycles |-> 2, mode |-> "Immediate"],
    [code |-> \hC2, mnemonic |-> "*NOP", len |-> 2, cycles |-> 2, mode |-> "Immediate"],
    [code |-> \hD4, mnemonic |-> "*NOP", len |-> 2, cycles |-> 4, mode |-> "ZeroPage_X"],
    [code |-> \hE2, mnemonic |-> "*NOP", len |-> 2, cycles |-> 2, mode |-> "Immediate"],
    [code |-> \hF4, mnemonic |-> "*NOP", len |-> 2, cycles |-> 4, mode |-> "ZeroPage_X"],
    [code |-> \hE7, mnemonic |-> "*ISB", len |-> 2, cycles |-> 5, mode |-> "ZeroPage"],
    [code |-> \hF7, mnemonic |-> "*ISB", len |-> 2, cycles |-> 6, mode |-> "ZeroPage_X"],
    [code |-> \hEF, mnemonic |-> "*ISB", len |-> 3, cycles |-> 6, mode |-> "Absolute"],
    [code |-> \hFF, mnemonic |-> "*ISB", len |-> 3, cycles |-> 7, mode |-> "Absolute_X"],
    [code |-> \hFB, mnemonic |-> "*ISB", len |-> 3, cycles |-> 7, mode |-> "Absolute_Y"],
    [code |-> \hE3, mnemonic |-> "*ISB", len |-> 2, cycles |-> 8, mode |-> "Indirect_X"],
    [code |-> \hF3, mnemonic |-> "*ISB", len |-> 2, cycles |-> 8, mode |-> "Indirect_Y"],
    [code |-> \h02, mnemonic |-> "*NOP", len |-> 1, cycles |-> 2, mode |-> "NoneAddressing"],
    [code |-> \h12, mnemonic |-> "*NOP", len |-> 1, cycles |-> 2, mode |-> "NoneAddressing"],
    [code |-> \h22, mnemonic |-> "*NOP", len |-> 1, cycles |-> 2, mode |-> "NoneAddressing"],
    [code |-> \h32, mnemonic |-> "*NOP", len |-> 1, cycles |-> 2, mode |-> "NoneAddressing"],
    [code |-> \h42, mnemonic |-> "*NOP", len |-> 1, cycles |-> 2, mode |-> "NoneAddressing"],
    [code |-> \h52, mnemonic |-> "*NOP", len |-> 1, cycles |-> 2, mode |-> "NoneAddressing"],
    [code |-> \h62, mnemonic |-> "*NOP", len |-> 1, cycles |-> 2, mode |-> "NoneAddressing"],
    [code |-> \h72, mnemonic |-> "*NOP", len |-> 1, cycles |-> 2, mode |-> "NoneAddressing"],
    [code |-> \h92, mnemonic |-> "*NOP", len |-> 1, cycles |-> 2, mode |-> "NoneAddressing"],
    [code |-> \hB2, mnemonic |-> "*NOP", len |-> 1, cycles |-> 2, mode |-> "NoneAddressing"],
    [code |-> \hD2, mnemonic |-> "*NOP", len |-> 1, cycles |-> 2, mode |-> "NoneAddressing"],
    [code |-> \hF2, mnemonic |-> "*NOP", len |-> 1, cycles |-> 2, mode |-> "NoneAddressing"],
    [code |-> \hBB, mnemonic |-> "*LAS", len |-> 3, cycles |-> 4, mode |-> "Absolute_Y"],
    [code |-> \hA7, mnemonic |-> "*LAX", len |-> 2, cycles |-> 3, mode |-> "ZeroPage"],
    [code |-> \hB7, mnemonic |-> "*LAX", len |-> 2, cycles |-> 4, mode |-> "ZeroPage_Y"],
    [code |-> \hAF, mnemonic |-> "*LAX", len |-> 3, cycles |-> 4, mode |-> "Absolute"],
    [code |-> \hBF, mnemonic |-> "*LAX", len |-> 3, cycles |-> 4, mode |-> "Absolute_Y"],
    [code |-> \hA3, mnemonic |-> "*LAX", len |-> 2, cycles |-> 6, mode |-> "Indirect_X"],
    [code |-> \hB3, mnemonic |-> "*LAX", len |-> 2, cycles |-> 5, mode |-> "Indirect_Y"],
    [code |-> \h1A, mnemonic |-> "*NOP", len |-> 1, cycles |-> 2, mode |-> "NoneAddressing"],
    [code |-> \h3A, mnemonic |-> "*NOP", len |-> 1, cycles |-> 2, mode |-> "NoneAddressing"],
    [code |-> \h5A, mnemonic |-> "*NOP", len |-> 1, cycles |-> 2, mode |-> "NoneAddressing"],
    [code |-> \h7A, mnemonic |-> "*NOP", len |-> 1, cycles |-> 2, mode |-> "NoneAddressing"],
    [code |-> \hDA, mnemonic |-> "*NOP", len |-> 1, cycles |-> 2, mode |-> "NoneAddressing"],
    [code |-> \hFA, mnemonic |-> "*NOP", len |-> 1, cycles |-> 2, mode |-> "NoneAddressing"],
    [code |-> \h27, mnemonic |-> "*RLA", len |-> 2, cycles |-> 5, mode |-> "ZeroPage"],
    [code |-> \h37, mnemonic |-> "*RLA", len |-> 2, cycles |-> 6, mode |-> "ZeroPage_X"],
    [code |-> \h2F, mnemonic |-> "*RLA", len |-> 3, cycles |-> 6, mode |-> "Absolute"],
    [code |-> \h3F, mnemonic |-> "*RLA", len |-> 3, cycles |-> 7, mode |-> "Absolute_X"],
    [code |-> \h3B, mnemonic |-> "*RLA", len |-> 3, cycles |-> 7, mode |-> "Absolute_Y"],
    [code |-> \h23, mnemonic |-> "*RLA", len |-> 2, cycles |-> 8, mode |-> "Indirect_X"],
    [code |-> \h33, mnemonic |-> "*RLA", len |-> 2, cycles |-> 8, mode |-> "Indirect_Y"],
    [code |-> \h67, mnemonic |-> "*RRA", len |-> 2, cycles |-> 5, mode |-> "ZeroPage"],
    [code |-> \h77, mnemonic |-> "*RRA", len |-> 2, cycles |-> 6, mode |-> "ZeroPage_X"],
    [code |-> \h6F, mnemonic |-> "*RRA", len |-> 3, cycles |-> 6, mode |-> "Absolute"],
    [code |-> \h7F, mnemonic |-> "*RRA", len |-> 3, cycles |-> 7, mode |-> "Absolute_X"],
    [code |-> \h7B, mnemonic |-> "*RRA", len |-> 3, cycles |-> 7, mode |-> "Absolute_Y"],
    [code |-> \h63, mnemonic |-> "*RRA", len |-> 2, cycles |-> 8, mode |-> "Indirect_X"],
    [code |-> \h73, mnemonic |-> "*RRA", len |-> 2, cycles |-> 8, mode |-> "Indirect_Y"],
    [code |-> \hEB, mnemonic |-> "*SBC", len |-> 2, cycles |-> 2, mode |-> "Immediate"],
    [code |-> \h07, mnemonic |-> "*SLO", len |-> 2, cycles |-> 5, mode |-> "ZeroPage"],
    [code |-> \h17, mnemonic |-> "*SLO", len |-> 2, cycles |-> 6, mode |-> "ZeroPage_X"],
    [code |-> \h0F, mnemonic |-> "*SLO", len |-> 3, cycles |-> 6, mode |-> "Absolute"],
    [code |-> \h1F, mnemonic |-> "*SLO", len |-> 3, cycles |-> 7, mode |-> "Absolute_X"],
    [code |-> \h1B, mnemonic |-> "*SLO", len |-> 3, cycles |-> 7, mode |-> "Absolute_Y"],
    [code |-> \h03, mnemonic |-> "*SLO", len |-> 2, cycles |-> 8, mode |-> "Indirect_X"],
    [code |-> \h13, mnemonic |-> "*SLO", len |-> 2, cycles |-> 8, mode |-> "Indirect_Y"],
    [code |-> \h47, mnemonic |-> "*SRE", len |-> 2, cycles |-> 5, mode |-> "ZeroPage"],
    [code |-> \h57, mnemonic |-> "*SRE", len |-> 2, cycles |-> 6, mode |-> "ZeroPage_X"],
    [code |-> \h4F, mnemonic |-> "*SRE", len |-> 3, cycles |-> 6, mode |-> "Absolute"],
    [code |-> \h5F, mnemonic |-> "*SRE", len |-> 3, cycles |-> 7, mode |-> "Absolute_X"],
    [code |-> \h5B, mnemonic |-> "*SRE", len |-> 3, cycles |-> 7, mode |-> "Absolute_Y"],
    [code |-> \h43, mnemonic |-> "*SRE", len |-> 2, cycles |-> 8, mode |-> "Indirect_X"],
    [code |-> \h53, mnemonic |-> "*SRE", len |-> 2, cycles |-> 8, mode |-> "Indirect_Y"],
    [code |-> \h9E, mnemonic |-> "*SHX", len |-> 3, cycles |-> 4, mode |-> "Absolute_Y"],
    [code |-> \h9C, mnemonic |-> "*SHY", len |-> 3, cycles |-> 4, mode |-> "Absolute_X"],
    [code |-> \h0C, mnemonic |-> "*NOP", len |-> 3, cycles |-> 4, mode |-> "Absolute"],
    [code |-> \h1C, mnemonic |-> "*NOP", len |-> 3, cycles |-> 4, mode |-> "Absolute_X"],
    [code |-> \h3C, mnemonic |-> "*NOP", len |-> 3, cycles |-> 4, mode |-> "Absolute_X"],
    [code |-> \h5C, mnemonic |-> "*NOP", len |-> 3, cycles |-> 4, mode |-> "Absolute_X"],
    [code |-> \h7C, mnemonic |-> "*NOP", len |-> 3, cycles |-> 4, mode |-> "Absolute_X"],
    [code |-> \hDC, mnemonic |-> "*NOP", len |-> 3, cycles |-> 4, mode |-> "Absolute_X"],
    [code |-> \hFC, mnemonic |-> "*NOP", len |-> 3, cycles |-> 4, mode |-> "Absolute_X"],
    [code |-> \h8B, mnemonic |-> "*XAA", len |-> 2, cycles |-> 3, mode |-> "Immediate"],
    [code |-> \h9B, mnemonic |-> "*TAS", len |-> 3, cycles |-> 2, mode |-> "Absolute_Y"] >>

\* opcodes.rs: OPCODES_MAP, built by inserting the entries in order (a later
\* entry of the same code replaces an earlier one); the lookup
\* `opcodes.get(&code)` of run_with_callback
table_entries(code) == {i \in 1 .. Len(CPU_OPS_CODES) : CPU_OPS_CODES[i].code = code}
OPCODES_MAP(code) ==
    the({ IF es = {} THEN None
          ELSE Some(CPU_OPS_CODES[CHOOSE i \in es : \A j \in es : j <= i])
        : es \in {table_entries(code)} })

\* the patterns of the arms of `match code` in run_with_callback: the handler
\* an opcode byte is dispatched to (the arm bodies are in execute)
Mut_match_code_without_dop(code) ==
    CASE code \in {\h69, \h65, \h75, \h6D, \h7D, \h79, \h61, \h71} ->
           "adc"
      [] code \in {\h29, \h25, \h35, \h2D, \h3D, \h39, \h21, \h31} ->
           "and"
      [] code \in {\h0A} ->
           "asl_accumulator"
      [] code \in {\h06, \h16, \h0E, \h1E} ->
           "asl"
      [] code \in {\h90} ->
           "bcc"
      [] code \in {\hB0} ->
           "bcs"
      [] code \in {\hF0} ->
           "beq"
      [] code \in {\h24, \h2C} ->
           "bit"
      [] code \in {\h30} ->
           "bmi"
      [] code \in {\hD0} ->
           "bne"
      [] code \in {\h10} ->
           "bpl"
      [] code \in {\h00} ->
           "brk"
      [] code \in {\h50} ->
           "bvc"
      [] code \in {\h70} ->
           "bvs"
      [] code \in {\h18} ->
           "clc"
      [] code \in {\hD8} ->
           "cld"
      [] code \in {\h58} ->
           "cli"
      [] code \in {\hB8} ->
           "clv"
      [] code \in {\hC9, \hC5, \hD5, \hCD, \hDD, \hD9, \hC1, \hD1} ->
           "cmp"
      [] code \in {\hE0, \hE4, \hEC} ->
           "cpx"
      [] code \in {\hC0, \hC4, \hCC} ->
           "cpy"
      [] code \in {\hC6, \hD6, \hCE, \hDE} ->
           "dec"
      [] code \in {\hCA} ->
           "dex"
      [] code \in {\h88} ->
           "dey"
      [] code \in {\h49, \h45, \h55, \h4D, \h5D, \h59, \h41, \h51} ->
           "eor"
      [] code \in {\hE6, \hF6, \hEE, \hFE} ->
           "inc"
      [] code \in {\hE8} ->
           "inx"
      [] code \in {\hC8} ->
           "iny"
      [] code \in {\h4C, \h6C} ->
           "jmp"
      [] code \in {\h20} ->
           "jsr"
      [] code \in {\hA9, \hA5, \hB5, \hAD, \hBD, \hB9, \hA1, \hB1} ->
           "lda"
      [] code \in {\hA2, \hA6, \hB6, \hAE, \hBE} ->
           "ldx"
      [] code \in {\hA0, \hA4, \hB4, \hAC, \hBC} ->
           "ldy"
      [] code \in {\h4A} ->
           "lsr_accumulator"
      [] code \in {\h46, \h56, \h4E, \h5E} ->
           "lsr"
      [] code \in {\hEA} ->
           "nop"
      [] code \in {\h09, \h05, \h15, \h0D, \h1D, \h19, \h01, \h11} ->
           "ora"
      [] code \in {\h48} ->
           "pha"
      [] code \in {\h08} ->
           "php"
      [] code \in {\h68} ->
           "pla"
      [] code \in {\h28} ->
           "plp"
      [] code \in {\h2A} ->
           "rol_accumulator"
      [] code \in {\h26, \h36, \h2E, \h3E} ->
           "rol"
      [] code \in {\h6A} ->
           "ror_accumulator"
      [] code \in {\h66, \h76, \h6E, \h7E} ->
           "ror"
      [] code \in {\h40} ->
           "rti"
      [] code \in {\h60} ->
           "rts"
      [] code \in {\hE9, \hE5, \hF5, \hED, \hFD, \hF9, \hE1, \hF1} ->
           "sbc"
      [] code \in {\h38} ->
           "sec"
      [] code \in {\hF8} ->
           "sed"
      [] code \in {\h78} ->
           "sei"
      [] code \in {\h85, \h95, \h8D, \h9D, \h99, \h81, \h91} ->
           "sta"
      [] code \in {\h86, \h96, \h8E} ->
           "stx"
      [] code \in {\h84, \h94, \h8C} ->
           "sty"
      [] code \in {\hAA} ->
           "tax"
      [] code \in {\hA8} ->
           "tay"
      [] code \in {\hBA} ->
           "tsx"
      [] code \in {\h8A} ->
           "txa"
      [] code \in {\h9A} ->
           "txs"
      [] code \in {\h98} ->
           "tya"
      [] code \in {\h0B, \h2B} ->
           "anc"
      [] code \in {\h87, \h97, \h8F, \h83} ->
           "sax"
      [] code \in {\h6B} ->
           "arr"
      [] code \in {\h4B} ->
           "alr"
      [] code \in {\hAB} ->
           "lxa"
      [] code \in {\h9F, \h93} ->
           "ahx"
      [] code \in {\hCB} ->
           "axs"
      [] code \in {\hC7, \hD7, \hCF, \hDF, \hDB, \hD3, \hC3} ->
           "dcp"
      [] code \in {\hE7, \hF7, \hEF, \hFF, \hFB, \hE3, \hF3} ->
           "isb"
      [] code \in {\h02, \h12, \h22, \h32, \h42, \h52, \h62, \h72, \h92, \hB2, \hD2, \hF2} ->
           "kil"
      [] code \in {\hBB} ->
           "las"
      [] code \in {\hA7, \hB7, \hAF, \hBF, \hA3, \hB3} ->
           "lax"
      [] code \in {\h1A, \h3A, \h5A, \h7A, \hDA, \hFA} ->
           "nop"
      [] code \in {\h27, \h37, \h2F, \h3F, \h3B, \h23, \h33} ->
           "rla"
      [] code \in {\h67, \h77, \h6F, \h7F, \h7B, \h63, \h73} ->
           "rra"
      [] code \in {\hEB} ->
           "sbc_ex"
      [] code \in {\h07, \h17, \h0F, \h1F, \h1B, \h03, \h13} ->
           "slo"
      [] code \in {\h47, \h57, \h4F, \h5F, \h5B, \h43, \h53} ->
           "sre"
      [] code \in {\h9E} ->
           "shx"
      [] code \in {\h9C} ->
           "shy"
      [] code \in {\h0C, \h1C, \h3C, \h5C, \h7C, \hDC, \hFC} ->
           "nop_top"
      [] code \in {\h8B} ->
           "xaa"
      [] code \in {\h9B} ->
           "tas"
      [] OTHER -> "crash"
match_code(code) ==
    CASE code \in {\h69, \h65, \h75, \h6D, \h7D, \h79, \h61, \h71} ->
           "adc"
      [] code \in {\h29, \h25, \h35, \h2D, \h3D, \h39, \h21, \h31} ->
           "and"
      [] code \in {\h0A} ->
           "asl_accumulator"
      [] code \in {\h06, \h16, \h0E, \h1E} ->
           "asl"
      [] code \in {\h90} ->
           "bcc"
      [] code \in {\hB0} ->
           "bcs"
      [] code \in {\hF0} ->
           "beq"
      [] code \in {\h24, \h2C} ->
           "bit"
      [] code \in {\h30} ->
           "bmi"
      [] code \in {\hD0} ->
           "bne"
      [] code \in {\h10} ->
           "bpl"
      [] code \in {\h00} ->
           "brk"
      [] code \in {\h50} ->
           "bvc"
      [] code \in {\h70} ->
           "bvs"
      [] code \in {\h18} ->
           "clc"
      [] code \in {\hD8} ->
           "cld"
      [] code \in {\h58} ->
           "cli"
      [] code \in {\hB8} ->
           "clv"
      [] code \in {\hC9, \hC5, \hD5, \hCD, \hDD, \hD9, \hC1, \hD1} ->
           "cmp"
      [] code \in {\hE0, \hE4, \hEC} ->
           "cpx"
      [] code \in {\hC0, \hC4, \hCC} ->
           "cpy"
      [] code \in {\hC6, \hD6, \hCE, \hDE} ->
           "dec"
      [] code \in {\hCA} ->
           "dex"
      [] code \in {\h88} ->
           "dey"
      [] code \in {\h49, \h45, \h55, \h4D, \h5D, \h59, \h41, \h51} ->
           "eor"
      [] code \in {\hE6, \hF6, \hEE, \hFE} ->
           "inc"
      [] code \in {\hE8} ->
           "inx"
      [] code \in {\hC8} ->
           "iny"
      [] code \in {\h4C, \h6C} ->
           "jmp"
      [] code \in {\h20} ->
           "jsr"
      [] code \in {\hA9, \hA5, \hB5, \hAD, \hBD, \hB9, \hA1, \hB1} ->
           "lda"
      [] code \in {\hA2, \hA6, \hB6, \hAE, \hBE} ->
           "ldx"
      [] code \in {\hA0, \hA4, \hB4, \hAC, \hBC} ->
           "ldy"
      [] code \in {\h4A} ->
           "lsr_accumulator"
      [] code \in {\h46, \h56, \h4E, \h5E} ->
           "lsr"
      [] code \in {\hEA} ->
           "nop"
      [] code \in {\h09, \h05, \h15, \h0D, \h1D, \h19, \h01, \h11} ->
           "ora"
      [] code \in {\h48} ->
           "pha"
      [] code \in {\h08} ->
           "php"
      [] code \in {\h68} ->
           "pla"
      [] code \in {\h28} ->
           "plp"
      [] code \in {\h2A} ->
           "rol_accumulator"
      [] code \in {\h26, \h36, \h2E, \h3E} ->
           "rol"
      [] code \in {\h6A} ->
           "ror_accumulator"
      [] code \in {\h66, \h76, \h6E, \h7E} ->
           "ror"
      [] code \in {\h40} ->
           "rti"
      [] code \in {\h60} ->
           "rts"
      [] code \in {\hE9, \hE5, \hF5, \hED, \hFD, \hF9, \hE1, \hF1} ->
           "sbc"
      [] code \in {\h38} ->
           "sec"
      [] code \in {\hF8} ->
           "sed"
      [] code \in {\h78} ->
           "sei"
      [] code \in {\h85, \h95, \h8D, \h9D, \h99, \h81, \h91} ->
           "sta"
      [] code \in {\h86, \h96, \h8E} ->
           "stx"
      [] code \in {\h84, \h94, \h8C} ->
           "sty"
      [] code \in {\hAA} ->
           "tax"
      [] code \in {\hA8} ->
           "tay"
      [] code \in {\hBA} ->
           "tsx"
      [] code \in {\h8A} ->
           "txa"
      [] code \in {\h9A} ->
           "txs"
      [] code \in {\h98} ->
           "tya"
      [] code \in {\h0B, \h2B} ->
           "anc"
      [] code \in {\h87, \h97, \h8F, \h83} ->
           "sax"
      [] code \in {\h6B} ->
           "arr"
      [] code \in {\h4B} ->
           "alr"
      [] code \in {\hAB} ->
           "lxa"
      [] code \in {\h9F, \h93} ->
           "ahx"
      [] code \in {\hCB} ->
           "axs"
      [] code \in {\hC7, \hD7, \hCF, \hDF, \hDB, \hD3, \hC3} ->
           "dcp"
      [] code \in {\h04, \h14, \h34, \h44, \h54, \h64, \h74, \h80, \h82, \h89, \hC2, \hD4, \hE2, \hF4} ->
           "nop_dop"
      [] code \in {\hE7, \hF7, \hEF, \hFF, \hFB, \hE3, \hF3} ->
           "isb"
      [] code \in {\h02, \h12, \h22, \h32, \h42, \h52, \h62, \h72, \h92, \hB2, \hD2, \hF2} ->
           "kil"
      [] code \in {\hBB} ->
           "las"
      [] code \in {\hA7, \hB7, \hAF, \hBF, \hA3, \hB3} ->
           "lax"
      [] code \in {\h1A, \h3A, \h5A, \h7A, \hDA, \hFA} ->
           "nop"
      [] code \in {\h27, \h37, \h2F, \h3F, \h3B, \h23, \h33} ->
           "rla"
      [] code \in {\h67, \h77, \h6F, \h7F, \h7B, \h63, \h73} ->
           "rra"
      [] code \in {\hEB} ->
           "sbc_ex"
      [] code \in {\h07, \h17, \h0F, \h1F, \h1B, \h03, \h13} ->
           "slo"
      [] code \in {\h47, \h57, \h4F, \h5F, \h5B, \h43, \h53} ->
           "sre"
      [] code \in {\h9E} ->
           "shx"
      [] code \in {\h9C} ->
           "shy"
      [] code \in {\h0C, \h1C, \h3C, \h5C, \h7C, \hDC, \hFC} ->
           "nop_top"
      [] code \in {\h8B} ->
           "xaa"
      [] code \in {\h9B} ->
           "tas"
      [] OTHER -> "crash"

\* CPU::ldy, stx, sty
ldy(m, mode) ==
    the({ the({
        [value.m EXCEPT !.cpu.register_y = value.v,
                        !.cpu.status = update_zero_and_negative_flags(@, value.v)]
    : value \in {cpu_mem_read(addr.m, addr.v)} })
    : addr  \in {get_operand_address(m, mode)} })
stx(m, mode) ==
    the({ cpu_mem_write(addr.m, addr.v, addr.m.cpu.register_x)
        : addr \in {get_operand_address(m, mode)} })
sty(m, mode) ==
    the({ cpu_mem_write(addr.m, addr.v, addr.m.cpu.register_y)
        : addr \in {get_operand_address(m, mode)} })

\* CPU::bit
bit(m, mode) ==
    the({ the({
        [value.m EXCEPT !.cpu.status =
            set(set(set(@, ZERO_FLAG, and_u8(value.m.cpu.register_a, value.v) = 0),
                    NEGATIVE_FLAG, contains(value.v, NEGATIVE_FLAG)),
                OVERFLOW_FLAG, contains(value.v, OVERFLOW_FLAG))]
    : value \in {cpu_mem_read(addr.m, addr.v)} })
    : addr  \in {get_operand_address(m, mode)} })

\* CPU::anc
anc(m, mode) ==
    the({ the({ the({
        [a EXCEPT !.cpu.status =
            set(@, CARRY_FLAG, contains(a.cpu.register_a, NEGATIVE_FLAG))]
    : a     \in {set_register_a(value.m, and_u8(value.m.cpu.register_a, value.v))} })
    : value \in {cpu_mem_read(addr.m, addr.v)} })
    : addr  \in {get_operand_address(m, mode)} })

\* CPU::sax
sax(m, mode) ==
    the({ cpu_mem_write(addr.m, addr.v,
                        and_u8(addr.m.cpu.register_x, addr.m.cpu.register_a))
        : addr \in {get_operand_address(m, mode)} })

\* CPU::arr: bits 5 and 6 of the rotated accumulator choose Carry and Overflow
arr(m, mode) ==
    the({ the({ the({ the({ the({
        [a EXCEPT !.cpu.status = update_zero_and_negative_flags(
            CASE res_bit_5 = 1 /\ res_bit_6 = 1 ->
                   remove(insert(@, CARRY_FLAG), OVERFLOW_FLAG)
              [] res_bit_5 = 0 /\ res_bit_6 = 0 ->
                   remove(remove(@, CARRY_FLAG), OVERFLOW_FLAG)
              [] res_bit_5 = 1 /\ res_bit_6 = 0 ->
                   insert(remove(@, CARRY_FLAG), OVERFLOW_FLAG)
              [] res_bit_5 = 0 /\ res_bit_6 = 1 ->
                   remove(insert(@, CARRY_FLAG), OVERFLOW_FLAG),
            a.cpu.register_a)]
    : res_bit_6 \in {bit_of(a.cpu.register_a, 6)} })
    : res_bit_5 \in {bit_of(a.cpu.register_a, 5)} })
    : a     \in {ror_accumulator(
                    set_register_a(value.m, and_u8(value.m.cpu.register_a, value.v)))} })
    : value \in {cpu_mem_read(addr.m, addr.v)} })
    : addr  \in {get_operand_address(m, mode)} })

\* CPU::alr
alr(m, mode) ==
    the({ the({
        lsr_accumulator(set_register_a(value.m, and_u8(value.m.cpu.register_a, value.v)))
    : value \in {cpu_mem_read(addr.m, addr.v)} })
    : addr  \in {get_operand_address(m, mode)} })

\* CPU::lxa
lxa(m, mode) ==
    the({ the({ the({
        [a EXCEPT !.cpu.register_x = a.cpu.register_a,
                  !.cpu.status = update_zero_and_negative_flags(@, a.cpu.register_a)]
    : a     \in {set_register_a(value.m, and_u8(value.m.cpu.register_a, value.v))} })
    : value \in {cpu_mem_read(addr.m, addr.v)} })
    : addr  \in {get_operand_address(m, mode)} })

\* CPU::ahx: the operand is read, then X & A & (addr >> 8) is written
ahx(m, mode) ==
    the({ the({
        cpu_mem_write(value.m, addr.v,
                      and_u8(and_u8(value.m.cpu.register_x, value.m.cpu.register_a),
                             addr.v \div 256))
    : value \in {cpu_mem_read(addr.m, addr.v)} })
    : addr  \in {get_operand_address(m, mode)} })

\* CPU::axs: res is tmp.wrapping_sub(tmp); Carry is set or left, never cleared
axs(m, mode) ==
    the({ the({ the({ the({
        [value.m EXCEPT !.cpu.status = update_zero_and_negative_flags(
                            IF value.v <= tmp THEN insert(@, CARRY_FLAG) ELSE @, res),
                        !.cpu.register_x = res]
    : res   \in {wrapping_sub_u8(tmp, tmp)} })
    : tmp   \in {and_u8(value.m.cpu.register_x, value.m.cpu.register_a)} })
    : value \in {cpu_mem_read(addr.m, addr.v)} })
    : addr  \in {get_operand_address(m, mode)} })

\* CPU::las
las(m, mode) ==
    the({ the({ the({
        [value.m EXCEPT !.cpu.register_a = res,
                        !.cpu.register_x = res,
                        !.cpu.stack_pointer = res,
                        !.cpu.status = update_zero_and_negative_flags(@, res)]
    : res   \in {and_u8(value.v, value.m.cpu.stack_pointer)} })
    : value \in {cpu_mem_read(addr.m, addr.v)} })
    : addr  \in {get_operand_address(m, mode)} })

\* CPU::lax
lax(m, mode) ==
    the({ the({
        [set_register_a(value.m, value.v) EXCEPT !.cpu.register_x = value.v]
    : value \in {cpu_mem_read(addr.m, addr.v)} })
    : addr  \in {get_operand_address(m, mode)} })

\* CPU::shx, shy: `(addr >> 8 as u8).wrapping_add(1) as u8`
shx(m, mode) ==
    the({ the({
        cpu_mem_write(addr.m, addr.v, and_u8(addr.m.cpu.register_x, tmp))
    : tmp  \in {wrapping_add_u16(addr.v \div 256, 1) % (U8Max + 1)} })
    : addr \in {get_operand_address(m, mode)} })
shy(m, mode) ==
    the({ the({
        cpu_mem_write(addr.m, addr.v, and_u8(addr.m.cpu.register_y, tmp))
    : tmp  \in {wrapping_add_u16(addr.v \div 256, 1) % (U8Max + 1)} })
    : addr \in {get_operand_address(m, mode)} })

\* CPU::xaa: X is copied to A and flagged before the operand is resolved
xaa(m, mode) ==
    the({ the({ the({
        set_register_a(data.m, and_u8(data.v, data.m.cpu.register_a))
    : data \in {cpu_mem_read(addr.m, addr.v)} })
    : addr \in {get_operand_address(
                    [m EXCEPT !.cpu.register_a = x,
                              !.cpu.status = update_zero_and_negative_flags(@, x)],
                    mode)} })
    : x    \in {m.cpu.register_x} })

\* CPU::tas
tas(m, mode) ==
    the({ the({ the({
        cpu_mem_write([addr.m EXCEPT !.cpu.stack_pointer = res], addr.v, res1)
    : res1 \in {and_u8(res, wrapping_add_u16(addr.v \div 256, 1) % (U8Max + 1))} })
    : res  \in {and_u8(addr.m.cpu.register_x, addr.m.cpu.register_a)} })
    : addr \in {get_operand_address(m, mode)} })

\* `opcodes.get(&code).expect(..)` of run_with_callback: the table entry of
\* a code the table holds
OpCode(code) == the({ entry[1] : entry \in {OPCODES_MAP(code)} })

\* the bodies of the arms of `match code` in run_with_callback; a handler of
\* one statement (the conditional branches, the register transfers and
\* steps, the no-operations, sbc_ex, crash) is written out in its arm
execute(m, code, opcode) ==
    the({
    CASE h = "adc" -> adc(m, opcode.mode)
      [] h = "and" -> and(m, opcode.mode)
      [] h = "asl_accumulator" -> asl_accumulator(m)
      [] h = "asl" -> asl(m, opcode.mode).m
      [] h = "bcc" -> IF ~contains(m.cpu.status, CARRY_FLAG) THEN branch(m) ELSE m
      [] h = "bcs" -> IF contains(m.cpu.status, CARRY_FLAG) THEN branch(m) ELSE m
      [] h = "beq" -> IF contains(m.cpu.status, ZERO_FLAG) THEN branch(m) ELSE m
      [] h = "bit" -> bit(m, opcode.mode)
      [] h = "bmi" -> IF contains(m.cpu.status, NEGATIVE_FLAG) THEN branch(m) ELSE m
      [] h = "bne" -> bne(m)
      [] h = "bpl" -> IF ~contains(m.cpu.status, NEGATIVE_FLAG) THEN branch(m) ELSE m
      [] h = "brk" -> brk(m)
      [] h = "bvc" -> IF ~contains(m.cpu.status, OVERFLOW_FLAG) THEN branch(m) ELSE m
      [] h = "bvs" -> IF contains(m.cpu.status, OVERFLOW_FLAG) THEN branch(m) ELSE m
      [] h = "clc" -> clc(m)
      [] h = "cld" -> cld(m)
      [] h = "cli" -> cli(m)
      [] h = "clv" -> clv(m)
      [] h = "cmp" -> cmp(m, opcode.mode)
      [] h = "cpx" -> cpx(m, opcode.mode)
      [] h = "cpy" -> cpy(m, opcode.mode)
      [] h = "dec" -> dec(m, opcode.mode)
      [] h = "dex" ->
           the({ [m EXCEPT !.cpu.register_x = x,
                           !.cpu.status = update_zero_and_negative_flags(@, x)]
               : x \in {wrapping_sub_u8(m.cpu.register_x, 1)} })
      [] h = "dey" ->
           the({ [m EXCEPT !.cpu.register_y = y,
                           !.cpu.status = update_zero_and_negative_flags(@, y)]
               : y \in {wrapping_sub_u8(m.cpu.register_y, 1)} })
      [] h = "eor" -> eor(m, opcode.mode)
      [] h = "inc" -> inc(m, opcode.mode)
      [] h = "inx" -> inx(m)
      [] h = "iny" ->
           the({ [m EXCEPT !.cpu.register_y = y,
                           !.cpu.status = update_zero_and_negative_flags(@, y)]
               : y \in {wrapping_add_u8(m.cpu.register_y, 1)} })
      [] h = "jmp" -> jmp(m, opcode.mode)
      [] h = "jsr" -> jsr(m, opcode.mode)
      [] h = "lda" -> lda(m, opcode.mode)
      [] h = "ldx" -> ldx(m, opcode.mode)
      [] h = "ldy" -> ldy(m, opcode.mode)
      [] h = "lsr_accumulator" -> lsr_accumulator(m)
      [] h = "lsr" -> lsr(m, opcode.mode).m
      [] h = "nop" -> m
      [] h = "ora" -> ora(m, opcode.mode)
      [] h = "pha" -> pha(m)
      [] h = "php" -> php(m)
      [] h = "pla" -> pla(m)
      [] h = "plp" -> plp(m)
      [] h = "rol_accumulator" -> rol_accumulator(m)
      [] h = "rol" -> rol(m, opcode.mode).m
      [] h = "ror_accumulator" -> ror_accumulator(m)
      [] h = "ror" -> ror(m, opcode.mode).m
      [] h = "rti" -> rti(m)
      [] h = "rts" -> rts(m)
      [] h = "sbc" -> sbc(m, opcode.mode)
      [] h = "sec" -> sec(m)
      [] h = "sed" -> sed(m)
      [] h = "sei" -> sei(m)
      [] h = "sta" -> sta(m, opcode.mode)
      [] h = "stx" -> stx(m, opcode.mode)
      [] h = "sty" -> sty(m, opcode.mode)
      [] h = "tax" ->
           [m EXCEPT !.cpu.register_x = m.cpu.register_a,
                     !.cpu.status = update_zero_and_negative_flags(@, m.cpu.register_a)]
      [] h = "tay" ->
           [m EXCEPT !.cpu.register_y = m.cpu.register_a,
                     !.cpu.status = update_zero_and_negative_flags(@, m.cpu.register_a)]
      [] h = "tsx" ->
           [m EXCEPT !.cpu.register_x = m.cpu.stack_pointer,
                     !.cpu.status = update_zero_and_negative_flags(@, m.cpu.stack_pointer)]
      [] h = "txa" ->
           [m EXCEPT !.cpu.register_a = m.cpu.register_x,
                     !.cpu.status = update_zero_and_negative_flags(@, m.cpu.register_x)]
      [] h = "txs" -> [m EXCEPT !.cpu.stack_pointer = m.cpu.register_x]
      [] h = "tya" ->
           [m EXCEPT !.cpu.register_a = m.cpu.register_y,
                     !.cpu.status = update_zero_and_negative_flags(@, m.cpu.register_y)]
      [] h = "anc" -> anc(m, opcode.mode)
      [] h = "sax" -> sax(m, opcode.mode)
      [] h = "arr" -> arr(m, opcode.mode)
      [] h = "alr" -> alr(m, opcode.mode)
      [] h = "lxa" -> lxa(m, opcode.mode)
      [] h = "ahx" -> ahx(m, opcode.mode)
      [] h = "axs" -> axs(m, opcode.mode)
      [] h = "dcp" -> dcp(m, opcode.mode)
      [] h = "nop_dop" -> m
      [] h = "isb" -> isb(m, opcode.mode)
      [] h = "kil" -> m
      [] h = "las" -> las(m, opcode.mode)
      [] h = "lax" -> lax(m, opcode.mode)
      [] h = "rla" -> rla(m, opcode.mode)
      [] h = "rra" -> rra(m, opcode.mode)
      [] h = "sbc_ex" -> sbc(m, opcode.mode)
      [] h = "slo" -> slo(m, opcode.mode)
      [] h = "sre" -> sre(m, opcode.mode)
      [] h = "shx" -> shx(m, opcode.mode)
      [] h = "shy" -> shy(m, opcode.mode)
      [] h = "nop_top" -> m
      [] h = "xaa" -> xaa(m, opcode.mode)
      [] h = "tas" -> tas(m, opcode.mode)
      [] h = "crash" ->
           [m EXCEPT !.fault = IF @ = "none" THEN "unexpected_opcode" ELSE @]
    : h \in {match_code(code)} })

\* CPU::reset
Mut_reset_keeps_index(m) ==
    the({ [pc.m EXCEPT !.cpu.register_a = 0,
                       !.cpu.register_y = 0,
                       !.cpu.stack_pointer = STACK_RESET,
                       !.cpu.status = 36,
                       !.cpu.program_counter = pc.v]
        : pc \in {mem_read_u16(m, \hFFFC)} })
reset(m) ==
    the({ [pc.m EXCEPT !.cpu.register_a = 0,
                       !.cpu.register_x = 0,
                       !.cpu.register_y = 0,
                       !.cpu.stack_pointer = STACK_RESET,
                       !.cpu.status = 36,
                       !.cpu.program_counter = pc.v]
        : pc \in {mem_read_u16(m, \hFFFC)} })

\* the length advance that ends an iteration of the loop of run_with_callback
advance(m, program_counter_state, opcode) ==
    IF program_counter_state = m.cpu.program_counter
    THEN the({ [pc.m EXCEPT !.cpu.program_counter = pc.v]
             : pc \in {add_u16(m, m.cpu.program_counter, opcode.len - 1)} })
    ELSE m

\* one iteration of the loop of CPU::run_with_callback, after callback(self):
\* fetch, table lookup, dispatch, length advance.  returned: the loop
\* returns (BRK).
run_iteration(m) ==
    the({ the({ the({
        IF ~is_some(opcode)
        THEN [m |-> [pc1.m EXCEPT !.fault = IF @ = "none" THEN "not_recognized" ELSE @],
              returned |-> FALSE, code |-> fetch.v]
        ELSE IF fetch.v = \h00
        THEN [m |-> execute([pc1.m EXCEPT !.cpu.program_counter = pc1.v],
                            fetch.v, opcode[1]),
              returned |-> TRUE, code |-> fetch.v]
        ELSE [m |-> advance(execute([pc1.m EXCEPT !.cpu.program_counter = pc1.v],
                                    fetch.v, opcode[1]),
                            pc1.v, opcode[1]),
              returned |-> FALSE, code |-> fetch.v]
    : opcode \in {OPCODES_MAP(fetch.v)} })
    : pc1    \in {add_u16(fetch.m, fetch.m.cpu.program_counter, 1)} })
    : fetch  \in {cpu_mem_read(m, m.cpu.program_counter)} })

(***************************************************************************)
(* State.                                                                  *)
(*   ppu             the stand-alone NesPPU                                *)
(*   bus             the Bus (with its own NesPPU, bus.ppu)                *)
(*   cpu             the register file of the CPU that owns bus            *)
(*   loop            where CPU::run_with_callback is: "idle" before it is  *)
(*                   entered, "running", "returned" after BRK              *)
(*   overflow_checks whether the build panics on integer overflow          *)
(*   fault           the panic raised, "none" while the process lives      *)
(*   op, ret         the last operation performed and what it returned     *)
(*   callbacks       how often gameloop_callback has been invoked          *)
(*   cb_seen         <<scanline, status>> of the PPU handed to the last    *)
(*                   invocation of gameloop_callback                       *)
(*   frame           of the video frame of bus.ppu in progress: cb, the    *)
(*                   callback invocations so far; gen, the NMI-generation  *)
(*                   bit at the entry of scanline 241 (None before it)     *)
(*   done            the `frame` record of the last completed frame        *)
(*   wraps           bus ticks whose dot product wrapped                   *)
(*   accesses        bus accesses of the PPU Data register so far          *)
(*   dots_total      dots delivered to the stand-alone PPU                 *)
(*   delivered       whether a poll of the stand-alone PPU has returned    *)
(*                   the request since the NMI was last pending            *)
(***************************************************************************)
VARIABLES ppu, bus, cpu, loop, overflow_checks, fault, op, ret,
          callbacks, cb_seen, frame, done, wraps, accesses, dots_total, delivered

vars == << ppu, bus, cpu, loop, overflow_checks, fault, op, ret,
           callbacks, cb_seen, frame, done, wraps, accesses, dots_total, delivered >>

ppu_vars == << ppu, dots_total, delivered >>
bus_vars == << bus, callbacks, cb_seen, frame, done, wraps, accesses >>
cpu_vars == << cpu, loop >>

\* inputs
Dots == {0, 85, 255}
TickInputs == {0, 85, 86, 255}
EnvTicks == {85}
CtrlInputs == {0, GENERATE_NMI}
BusWrites == { <<\h2000, 0>>, <<\h2000, \h80>>, <<\h3FF8, \h80>> }
BusReads == { \h2002 }

InitRoms(roms, checks) ==
    /\ ppu = NesPPU_new_empty_rom
    /\ bus \in {Bus_new(r) : r \in roms}
    /\ cpu = CPU_new
    /\ loop = "idle"
    /\ overflow_checks \in checks
    /\ fault = "none"
    /\ op = [name |-> "new", arg |-> 0]
    /\ ret = 0
    /\ callbacks = 0
    /\ cb_seen = None
    /\ frame = [cb |-> 0, gen |-> None]
    /\ done = None
    /\ wraps = 0
    /\ accesses = 0
    /\ dots_total = 0
    /\ delivered = FALSE

InitWith(images, checks) ==
    InitRoms({Rom(i, Chr(\h2000, 1), "HORIZONTAL") : i \in images}, checks)

Init == InitWith(Images, BOOLEAN)
InitBus == InitWith({Image(\h4000, ProgEnableNmi)}, BOOLEAN)
InitPPU == InitWith({Image(\h4000, ProgEnableNmi)}, {FALSE})

(***************************************************************************)
(* Operations on the stand-alone PPU.                                      *)
(***************************************************************************)
PpuTick(d) ==
    /\ fault = "none"
    /\ dots_total + d <= MaxDots
    /\ \E t \in {NesPPU_tick(ppu, d)} :
           /\ ppu' = t.ppu
           /\ ret' = t.ret
           /\ delivered' = (delivered /\ ~is_some(t.ppu.nmi_interrupt))
    /\ dots_total' = dots_total + d
    /\ op' = [name |-> "tick", arg |-> d]
    /\ UNCHANGED << bus_vars, cpu_vars, overflow_checks, fault >>

PpuPoll ==
    /\ fault = "none"
    /\ \E r \in {poll_nmi_interrupt(ppu)} :
           /\ ppu' = r.ppu
           /\ ret' = r.ret
           /\ delivered' = IF is_some(r.ret) THEN TRUE
                           ELSE (delivered /\ ~is_some(r.ppu.nmi_interrupt))
    /\ op' = [name |-> "poll", arg |-> 0]
    /\ UNCHANGED << dots_total, bus_vars, cpu_vars, overflow_checks, fault >>

PpuWriteCtrl(v) ==
    /\ fault = "none"
    /\ ppu' = write_to_ctrl(ppu, v)
    /\ delivered' = (delivered /\ ~is_some(ppu'.nmi_interrupt))
    /\ ret' = 0
    /\ op' = [name |-> "write_to_ctrl", arg |-> v]
    /\ UNCHANGED << dots_total, bus_vars, cpu_vars, overflow_checks, fault >>

PpuReadStatus ==
    /\ fault = "none"
    /\ \E r \in {read_status(ppu)} :
           /\ ppu' = r.ppu
           /\ ret' = r.ret
    /\ op' = [name |-> "read_status", arg |-> 0]
    /\ UNCHANGED << dots_total, delivered, bus_vars, cpu_vars, overflow_checks, fault >>

NextPPU ==
    \/ \E d \in Dots : PpuTick(d)
    \/ PpuPoll
    \/ \E v \in CtrlInputs : PpuWriteCtrl(v)
    \/ PpuReadStatus

SpecPPU == InitPPU /\ [][NextPPU]_vars

(***************************************************************************)
(* Operations on the bus.                                                  *)
(***************************************************************************)
\* the effect of bus.tick(c) on the bus and on the record of the callback
TickBus(c) ==
    /\ fault = "none"
    /\ bus.cycles + c <= MaxBusCycles
    /\ (c * 3 > U8Max /\ ~overflow_checks) => wraps < MaxWraps
    /\ wraps' = IF c * 3 > U8Max /\ ~overflow_checks THEN wraps + 1 ELSE wraps
    /\ \E r \in {Bus_tick(bus, c, overflow_checks)} :
       \E fr \in {[cb  |-> frame.cb + (IF r.called THEN 1 ELSE 0),
                   gen |-> IF bus.ppu.scanline # VblankLine
                              /\ r.bus.ppu.scanline = VblankLine
                           THEN Some(generate_nmi(bus.ppu.ctrl))
                           ELSE frame.gen]} :
           /\ bus' = r.bus
           /\ fault' = r.fault
           /\ callbacks' = callbacks + (IF r.called THEN 1 ELSE 0)
           /\ cb_seen' = IF r.called
                         THEN Some(<< r.bus.ppu.scanline, r.bus.ppu.status >>)
                         ELSE cb_seen
           /\ frame' = IF r.eof THEN [cb |-> 0, gen |-> None] ELSE fr
           /\ done' = IF r.eof THEN Some(fr) ELSE done
           /\ ret' = 0
    /\ accesses' = accesses

BusTick(c) ==
    /\ TickBus(c)
    /\ op' = [name |-> "tick", arg |-> c]
    /\ UNCHANGED << ppu_vars, cpu_vars, overflow_checks >>

BusPoll ==
    /\ fault = "none"
    /\ \E r \in {Bus_poll_nmi_status(bus)} :
           /\ bus' = r.bus
           /\ ret' = r.ret
    /\ op' = [name |-> "poll", arg |-> 0]
    /\ UNCHANGED << callbacks, cb_seen, frame, done, wraps, accesses,
                    ppu_vars, cpu_vars, overflow_checks, fault >>

\* whether a bus address selects the PPU Data register (0x2007 or a mirror)
hits_data(addr) == addr >= \h2000 /\ addr <= \h3FFF /\ addr % 8 = 7

BusWrite(addr, data) ==
    /\ fault = "none"
    /\ hits_data(addr) => accesses < MaxAccesses
    /\ \E r \in {Bus_mem_write(bus, addr, data)} :
           /\ bus' = r.bus
           /\ fault' = r.fault
    /\ ret' = 0
    /\ accesses' = IF hits_data(addr) THEN accesses + 1 ELSE accesses
    /\ op' = [name |-> "mem_write", arg |-> << addr, data >>]
    /\ UNCHANGED << callbacks, cb_seen, frame, done, wraps,
                    ppu_vars, cpu_vars, overflow_checks >>

BusRead(addr) ==
    /\ fault = "none"
    /\ hits_data(addr) => accesses < MaxAccesses
    /\ \E r \in {Bus_mem_read(bus, addr)} :
           /\ bus' = r.bus
           /\ ret' = r.v
           /\ fault' = r.fault
    /\ accesses' = IF hits_data(addr) THEN accesses + 1 ELSE accesses
    /\ op' = [name |-> "mem_read", arg |-> addr]
    /\ UNCHANGED << callbacks, cb_seen, frame, done, wraps,
                    ppu_vars, cpu_vars, overflow_checks >>

NextBus ==
    \/ \E c \in TickInputs : BusTick(c)
    \/ BusPoll
    \/ \E w \in BusWrites : BusWrite(w[1], w[2])
    \/ \E a \in BusReads : BusRead(a)

SpecBus == InitBus /\ [][NextBus]_vars

(***************************************************************************)
(* The CPU: main.rs calls reset and then run_with_callback.  The callback  *)
(* run_with_callback invokes at the top of every iteration is given the    *)
(* CPU mutably; EnvTick is a callback that ticks the bus.                  *)
(***************************************************************************)
machine == [cpu |-> cpu, bus |-> bus, fault |-> fault, checks |-> overflow_checks]

Reset ==
    /\ fault = "none"
    /\ loop = "idle"
    /\ \E m \in {reset(machine)} :
           /\ cpu' = m.cpu
           /\ bus' = m.bus
           /\ fault' = m.fault
    /\ loop' = "running"
    /\ ret' = 0
    /\ op' = [name |-> "reset", arg |-> 0]
    /\ UNCHANGED << callbacks, cb_seen, frame, done, wraps, accesses, ppu_vars, overflow_checks >>

\* a panic aborts the process: the registers and memory of the faulting
\* iteration are kept as they were before it
CpuStep ==
    /\ fault = "none"
    /\ loop = "running"
    /\ \E r \in {run_iteration(machine)} :
           /\ fault' = r.m.fault
           /\ cpu' = IF r.m.fault = "none" THEN r.m.cpu ELSE cpu
           /\ bus' = IF r.m.fault = "none" THEN r.m.bus ELSE bus
           /\ loop' = IF r.m.fault = "none" /\ r.returned THEN "returned" ELSE loop
           /\ op' = [name |-> "step", arg |-> r.code]
    /\ ret' = 0
    /\ UNCHANGED << callbacks, cb_seen, frame, done, wraps, accesses, ppu_vars, overflow_checks >>

EnvTick(c) ==
    /\ loop = "running"
    /\ TickBus(c)
    /\ op' = [name |-> "tick", arg |-> c]
    /\ UNCHANGED << ppu_vars, cpu_vars, overflow_checks >>

Next ==
    \/ Reset
    \/ CpuStep
    \/ \E c \in EnvTicks : EnvTick(c)

Spec == Init /\ [][Next]_vars

\* the run loop is a plain `loop`: while the process lives it keeps iterating
FairSpec == Init /\ [][Next]_vars /\ WF_vars(Reset) /\ WF_vars(CpuStep)

(***************************************************************************)
(* Properties of the CPU run loop (Spec, FairSpec).                        *)
(***************************************************************************)
\* the byte / little-endian word the bus holds at an address of RAM or ROM
peek(b, addr) == Bus_mem_read(b, addr).v
peek_u16(b, addr) == peek(b, addr) + 256 * peek(b, wrapping_add_u16(addr, 1))
page(addr) == addr \div 256

\* the cycle cost the cycle-accounting rules give the instruction at the
\* program counter: base cost, +1 for a page-crossing indexed access, +1 for
\* a taken branch and +1 more when its target is on another page
InstructionCycles(c, b) ==
    LET pc     == c.program_counter
        opcode == OpCode(peek(b, pc))
        base   == peek_u16(b, wrapping_add_u16(pc, 1))
        target == wrapping_add_u16(wrapping_add_u16(pc, 2),
                                   sign_extend(peek(b, wrapping_add_u16(pc, 1))))
    IN  opcode.cycles
        + (IF opcode.mode = "Absolute_X"
              /\ page(base) # page(wrapping_add_u16(base, c.register_x))
           THEN 1 ELSE 0)
        + (IF opcode.mnemonic = "BNE" /\ ~contains(c.status, ZERO_FLAG)
           THEN 1 + (IF page(target) # page(wrapping_add_u16(pc, 2)) THEN 1 ELSE 0)
           ELSE 0)

\* C1: every instruction the run loop executes reports its cycles to the bus:
\* the bus cycle counter grows by the instruction's cost (base cost plus the
\* page-cross and branch surcharges) in the iteration that executes it.
C1_TickPerInstruction ==
    [][ (op'.name = "step" /\ fault' = "none")
            => bus'.cycles = bus.cycles + InstructionCycles(cpu, bus) ]_vars

\* C2: an iteration of the run loop entered with an NMI pending services it:
\* the program counter and the status (Break clear, bit 5 set) are pushed,
\* Interrupt-Disable is set, the program counter is loaded from the word at
\* 0xFFFA and the pending NMI is consumed.  (The handler of the modelled
\* images is `JMP` to itself, so the program counter is the vector whether
\* or not the iteration goes on to execute the handler's first instruction.)
C2_NmiServicedAtFetch ==
    [][ (op'.name = "step" /\ fault' = "none" /\ is_some(bus.ppu.nmi_interrupt))
            => /\ ~is_some(bus'.ppu.nmi_interrupt)
               /\ cpu'.program_counter = peek_u16(bus, \hFFFA)
               /\ contains(cpu'.status, INTERRUPT_DISABLE)
               /\ cpu'.stack_pointer = (cpu.stack_pointer + 256 - 3) % 256
               /\ peek(bus', STACK + cpu.stack_pointer) = page(cpu.program_counter)
               /\ peek(bus', STACK + ((cpu.stack_pointer + 255) % 256))
                      = cpu.program_counter % 256
               /\ peek(bus', STACK + ((cpu.stack_pointer + 254) % 256))
                      = insert(remove(cpu.status, BREAK_COMMAND), BREAK2_COMMAND)
      ]_vars

\* C3: if from some point on the CPU keeps executing instructions with the
\* NMI-generation bit set, the PPU eventually is in scanline 241 with
\* vblank-started set and the per-frame callback has been invoked.
C3_VblankEventually ==
    <>[](loop = "running" /\ fault = "none" /\ generate_nmi(bus.ppu.ctrl))
        => <>(/\ bus.ppu.scanline = VblankLine
              /\ check_vblank_started(bus.ppu.status)
              /\ callbacks > 0)

(***************************************************************************)
(* Properties of the bus (SpecBus).                                        *)
(***************************************************************************)
\* the position of a PPU in its frame, in dots
DotsPerFrame == DotsPerLine * LinesPerFrame
position(p) == p.scanline * DotsPerLine + p.cycles

\* C4: tick(c) adds exactly c to the bus cycle counter and advances the PPU
\* by exactly 3*c dots without a fault, for every c the u8 argument carries.
C4_TickExact ==
    [][ op'.name = "tick"
            => /\ fault' = "none"
               /\ bus'.cycles = bus.cycles + op'.arg
               /\ position(bus'.ppu)
                      = (position(bus.ppu) + 3 * op'.arg) % DotsPerFrame ]_vars

\* C5: the per-frame callback is invoked by a step exactly when the step is a
\* bus tick before which no NMI was pending and after which one is; it is
\* invoked at most once by a step, and it is handed the PPU as the tick has
\* left it.
C5_CallbackOnRisingEdge ==
    [][ /\ callbacks' \in {callbacks, callbacks + 1}
        /\ (callbacks' = callbacks + 1)
               <=> (/\ op'.name = "tick"
                    /\ ~is_some(bus.ppu.nmi_interrupt)
                    /\ is_some(bus'.ppu.nmi_interrupt))
        /\ (callbacks' = callbacks + 1)
               => cb_seen' = Some(<< bus'.ppu.scanline, bus'.ppu.status >>) ]_vars

\* a tick has just invoked the callback, on entering scanline 241
C5_Witness ==
    /\ op.name = "tick"
    /\ callbacks = 1
    /\ is_some(bus.ppu.nmi_interrupt)
    /\ cb_seen = Some(<< VblankLine, VBLANK_STARTED >>)

\* C6 as stated: the callback is invoked exactly once in every video frame.
C6_OncePerFrame == is_some(done) => done[1].cb = 1

\* C6, amended: the callback is invoked at most once in every video frame,
\* and exactly once in the frames in which the NMI-generation bit is set when
\* the tick enters scanline 241 (never in a frame where it is clear then).
C6_OncePerNmiFrame ==
    /\ frame.cb <= 1
    /\ is_some(done) => done[1].cb = (IF done[1].gen = Some(TRUE) THEN 1 ELSE 0)

\* a frame has been completed in which the callback was invoked, after
\* status reads and polls
C6_Witness ==
    /\ is_some(done)
    /\ done[1].cb = 1
    /\ frame.cb = 0
    /\ op.name = "tick"

(***************************************************************************)
(* Properties of the PPU (SpecPPU).                                        *)
(***************************************************************************)
\* C7: the tick in which the scanline counter becomes 241 sets
\* vblank-started, clears sprite-zero-hit and latches a pending NMI exactly
\* if the NMI-generation bit is set; no other tick sets vblank-started.
C7_VblankEntry ==
    [][ op'.name = "tick"
            => IF ppu.scanline # VblankLine /\ ppu'.scanline = VblankLine
               THEN /\ check_vblank_started(ppu'.status)
                    /\ ~contains(ppu'.status, SPRITE_ZERO_HIT)
                    /\ is_some(ppu'.nmi_interrupt) <=> generate_nmi(ppu.ctrl)
               ELSE check_vblank_started(ppu'.status)
                        => check_vblank_started(ppu.status) ]_vars

\* the tick that entered scanline 241 with the NMI-generation bit set
C7_Witness ==
    /\ op.name = "tick"
    /\ ppu.scanline = VblankLine
    /\ dots_total = VblankLine * DotsPerLine + ppu.cycles
    /\ ppu.cycles < op.arg
    /\ check_vblank_started(ppu.status)
    /\ is_some(ppu.nmi_interrupt)

\* C8: the tick in which the scanline counter would become 262 resets it to
\* 0, clears the pending NMI, sprite-zero-hit and vblank-started and returns
\* true; every other tick returns false.
C8_FrameWrap ==
    [][ op'.name = "tick"
            => IF ppu.scanline = LinesPerFrame - 1
                  /\ ppu.cycles + op'.arg >= DotsPerLine
               THEN /\ ret' = TRUE
                    /\ ppu'.scanline = 0
                    /\ ppu'.nmi_interrupt = None
                    /\ ~contains(ppu'.status, SPRITE_ZERO_HIT)
                    /\ ~check_vblank_started(ppu'.status)
               ELSE /\ ret' = FALSE
                    /\ ppu'.scanline # 0 \/ ppu.scanline = 0 ]_vars

\* a tick has just wrapped the frame and returned true
C8_Witness ==
    /\ op.name = "tick"
    /\ ret = TRUE
    /\ ppu.scanline = 0
    /\ dots_total >= DotsPerFrame
    /\ generate_nmi(ppu.ctrl)

\* C9: a poll returns the pending NMI and clears it; a request is handed to
\* at most one poll between two moments at which it is pending again (of two
\* polls in a row the second returns none); and the entry of scanline 241
\* with the NMI-generation bit set leaves a request for the next poll.
C9_PollTakes ==
    [][ /\ op'.name = "poll"
            => /\ ret' = ppu.nmi_interrupt
               /\ ppu'.nmi_interrupt = None
               /\ is_some(ret') => ~delivered
               /\ op.name = "poll" => ret' = None
        /\ (/\ op'.name = "tick"
            /\ ppu.scanline # VblankLine /\ ppu'.scanline = VblankLine
            /\ generate_nmi(ppu.ctrl))
            => is_some(ppu'.nmi_interrupt) /\ ~delivered' ]_vars

\* a poll in scanline 241 has just returned the request and cleared it
C9_Witness ==
    /\ op.name = "poll"
    /\ is_some(ret)
    /\ delivered
    /\ ppu.scanline = VblankLine
    /\ ~is_some(ppu.nmi_interrupt)

\* C10: after N dots in total the dot counter is N mod 341 and the scanline
\* counter (N div 341) mod 262, so both stay within their ranges.
C10_DotCount ==
    /\ ppu.cycles = dots_total % DotsPerLine
    /\ ppu.scanline = (dots_total \div DotsPerLine) % LinesPerFrame
    /\ ppu.scanline \in 0 .. LinesPerFrame - 1
    /\ ppu.cycles \in 0 .. DotsPerLine - 1

\* more than a frame of dots has been delivered, the last tick landing
\* exactly on the start of a scanline
C10_Witness ==
    /\ op.name = "tick"
    /\ op.arg > 0
    /\ dots_total > DotsPerFrame
    /\ ppu.cycles = 0
    /\ ppu.scanline > 0

(***************************************************************************)
(* The first scanlines of a PPU, dot by dot (SpecScan).                    *)
(***************************************************************************)
MaxScanDots == 1400
ScanDots == {1, 124, 255}

ScanTick(d) ==
    /\ dots_total + d <= MaxScanDots
    /\ PpuTick(d)

NextScan == \E d \in ScanDots : ScanTick(d)

SpecScan == InitPPU /\ [][NextScan]_vars

\* C11 as stated: after exactly 1,364 dots from scanline 0 / dot 0 the
\* scanline counter is 3 and the dot counter 0.
C11_ThreeLines == dots_total = 1364 => (ppu.scanline = 3 /\ ppu.cycles = 0)

\* C11, amended: after exactly 1,364 dots (four times 341) from scanline 0 /
\* dot 0 the scanline counter is 4 and the dot counter 0; the scanline
\* counter is 3 with dot counter 0 after exactly 1,023 dots.
C11_FourLines ==
    /\ dots_total = 1364 => (ppu.scanline = 4 /\ ppu.cycles = 0)
    /\ dots_total = 1023 => (ppu.scanline = 3 /\ ppu.cycles = 0)

\* exactly 1,364 dots have been delivered, the last by a tick
C11_Witness ==
    /\ op.name = "tick"
    /\ dots_total = 1364
    /\ ppu.cycles = 0

(***************************************************************************)
(* The bus with the PPU Address and Data registers in use, under the three *)
(* mirroring modes (SpecData).                                             *)
(***************************************************************************)
Mirrorings == {"VERTICAL", "HORIZONTAL", "FOUR_SCREEN"}
AddrBytes == {\h00, \h20, \h28, \h30, \h3F}
RomAddrs == {\h8000, \hFFFF}
DataWrites ==
    {<< \h2006, v >> : v \in AddrBytes}
        \cup {<< a, v >> : a \in RomAddrs, v \in {\h00, \h5A}}
        \cup { << \h2007, \h5A >>, << \h07FF, \h5A >> }
DataReads == {\h2007, \h3FFF}

InitData ==
    InitRoms({Rom(Image(\h4000, ProgEnableNmi), Chr(\h2000, 1), m) : m \in Mirrorings},
             {FALSE})

NextData ==
    \/ \E w \in DataWrites : BusWrite(w[1], w[2])
    \/ \E a \in DataReads : BusRead(a)

SpecData == InitData /\ [][NextData]_vars

\* C13: bus reads and writes are total: no read, and no write outside ROM
\* space, ends in a fatal fault, whatever the VRAM pointer behind the Data
\* register.
C13_BusTotal == fault \in {"none", "rom_write"}

\* C14: a write to 0x8000..0xFFFF raises the ROM-write fault and changes
\* nothing of the bus: no PRG ROM byte, no RAM byte, no PPU state.
C14_RomWriteFatal ==
    [][ (op'.name = "mem_write" /\ op'.arg[1] >= \h8000)
            => (fault' = "rom_write" /\ bus' = bus) ]_vars

\* a write to the last ROM address has faulted, with RAM and VRAM in use
C14_Witness ==
    /\ op.name = "mem_write"
    /\ op.arg = << \hFFFF, \h5A >>
    /\ fault = "rom_write"
    /\ bus.cpu_vram # << >>
    /\ bus.ppu.vram # << >>

\* C15: with four-screen mirroring a Data-register access with the VRAM
\* pointer in 0x2000..0x2FFF is not fatal.
C15_FourScreenNonFatal ==
    [][ (/\ bus.ppu.mirroring = "FOUR_SCREEN"
         /\ op'.name \in {"mem_read", "mem_write"}
         /\ hits_data(IF op'.name = "mem_read" THEN op'.arg ELSE op'.arg[1])
         /\ AddrRegister_get(bus.ppu.addr) >= \h2000
         /\ AddrRegister_get(bus.ppu.addr) <= \h2FFF)
            => fault' = "none" ]_vars


(***************************************************************************)
(* Instructions run from RAM: CPU::load writes the program to 0x0600, the  *)
(* registers are set and run_with_callback is entered at the program.      *)
(***************************************************************************)
\* 0x0600, where CPU::load writes the program
LoadBase == 1536

\* CPU::load
RECURSIVE load_from(_, _, _)
load_from(m, program, i) ==
    IF i >= Len(program)
    THEN m
    ELSE load_from(cpu_mem_write(m, LoadBase + i, program[i + 1]), program, i + 1)
load(m, program) == load_from(m, program, 0)

\* cpu.mem_write(addr, value) for each <<addr, value>> of data, in order
RECURSIVE store_from(_, _, _)
store_from(m, data, i) ==
    IF i >= Len(data)
    THEN m
    ELSE store_from(cpu_mem_write(m, data[i + 1][1], data[i + 1][2]), data, i + 1)
store(m, data) == store_from(m, data, 0)

\* a set-up: the program loaded, the bytes written to memory after it, the
\* register file the loop is entered with, and whether the build checks
\* arithmetic overflow
Setup(program, a, x, y, status, sp) ==
    [program |-> program,
     data    |-> << >>,
     checks  |-> FALSE,
     cpu     |-> [CPU_new EXCEPT !.register_a = a, !.register_x = x, !.register_y = y,
                                 !.status = status, !.stack_pointer = sp,
                                 !.program_counter = LoadBase]]

WithData(su, data) == [su EXCEPT !.data = data]
WithChecks(su, checks) == [su EXCEPT !.checks = checks]

InitLoaded(setups) ==
    /\ ppu = NesPPU_new_empty_rom
    /\ \E su \in setups :
           /\ cpu = su.cpu
           /\ bus = store(load([cpu |-> su.cpu,
                                bus |-> Bus_new(Rom(Image(\h4000, ProgEnableNmi),
                                                    Chr(\h2000, 1), "HORIZONTAL")),
                                fault |-> "none", checks |-> su.checks], su.program),
                          su.data).bus
           /\ overflow_checks = su.checks
    /\ loop = "running"
    /\ fault = "none"
    /\ op = [name |-> "load", arg |-> 0]
    /\ ret = 0
    /\ callbacks = 0
    /\ cb_seen = None
    /\ frame = [cb |-> 0, gen |-> None]
    /\ done = None
    /\ wraps = 0
    /\ accesses = 0
    /\ dots_total = 0
    /\ delivered = FALSE

\* the flags of a register file, and the operand byte of the instruction at
\* its program counter
carry(c) == IF contains(c.status, CARRY_FLAG) THEN 1 ELSE 0
operand(c, b) == peek(b, wrapping_add_u16(c.program_counter, 1))
stepped(code) == op'.name = "step" /\ op'.arg = code

(***************************************************************************)
(* C16: ADC.                                                               *)
(***************************************************************************)
\* ADC #M from every accumulator, operand and carry
InitAdc ==
    \E mm \in Byte, a \in Byte, c \in {0, 1} :
        InitLoaded({ Setup(<< \h69, mm >>, a, 0, 0, 36 + c, STACK_RESET) })

SpecAdc == InitAdc /\ [][CpuStep]_vars

\* C16: ADC with accumulator A, operand M and carry-in C leaves
\* A' = (A + M + C) mod 256, Carry = (A + M + C > 255), Overflow = (A and M
\* have the same sign bit and A' the other one), Zero = (A' = 0) and
\* Negative = bit 7 of A', and raises no fault.
C16_Adc ==
    [][stepped(\h69) =>
         LET sum == cpu.register_a + operand(cpu, bus) + carry(cpu) IN
         /\ fault' = "none"
         /\ cpu'.register_a = sum % 256
         /\ contains(cpu'.status, CARRY_FLAG) = (sum > 255)
         /\ contains(cpu'.status, OVERFLOW_FLAG) =
                (/\ (cpu.register_a >= 128) = (operand(cpu, bus) >= 128)
                 /\ (sum % 256 >= 128) # (cpu.register_a >= 128))
         /\ contains(cpu'.status, ZERO_FLAG) = (sum % 256 = 0)
         /\ contains(cpu'.status, NEGATIVE_FLAG) = (sum % 256 >= 128)
    ]_vars

\* ADC #$7F has just run with carry clear on accumulator 0x01: accumulator
\* 0x80, Overflow and Negative set, Carry clear
C16_Witness ==
    /\ op = [name |-> "step", arg |-> \h69]
    /\ peek(bus, LoadBase + 1) = \h7F
    /\ cpu.register_a = \h80
    /\ contains(cpu.status, OVERFLOW_FLAG)
    /\ contains(cpu.status, NEGATIVE_FLAG)
    /\ ~contains(cpu.status, CARRY_FLAG)
    /\ ~contains(cpu.status, ZERO_FLAG)


(***************************************************************************)
(* C17: SBC.                                                               *)
(***************************************************************************)
\* CLC ; ADC #M ; SEC ; SBC #M
ProgAddThenSubtract(mm) == << \h18, \h69, mm, \h38, \hE9, mm >>

\* SBC #M from every accumulator, operand and carry; the add-subtract
\* sequence from every accumulator and operand, entered with the carry set
\* and the accumulator copied to X
InitSbc ==
    \/ \E mm \in Byte, a \in Byte, c \in {0, 1} :
           InitLoaded({ Setup(<< \hE9, mm >>, a, 0, 0, 36 + c, STACK_RESET) })
    \/ \E mm \in Byte, a \in Byte :
           InitLoaded({ Setup(ProgAddThenSubtract(mm), a, a, 0, 37, STACK_RESET) })
SpecSbc == InitSbc /\ [][CpuStep]_vars

\* C17: SBC with accumulator A, operand M and carry-in C leaves
\* A' = (A - M - (1 - C)) mod 256 with Carry set iff A >= M + (1 - C), and
\* every flag as ADC leaves it for the operand 255 - M; the SBC that ends
\* CLC, ADC #M, SEC, SBC #M leaves the accumulator the sequence started with.
C17_Sbc ==
    [][stepped(\hE9) =>
         LET A == cpu.register_a
             M == operand(cpu, bus)
             C == carry(cpu)
             sum == A + (255 - M) + C
         IN
         /\ fault' = "none"
         /\ cpu'.register_a = (A + 256 - M - (1 - C)) % 256
         /\ contains(cpu'.status, CARRY_FLAG) = (A >= M + (1 - C))
         /\ cpu'.register_a = sum % 256
         /\ contains(cpu'.status, CARRY_FLAG) = (sum > 255)
         /\ contains(cpu'.status, OVERFLOW_FLAG) =
                (/\ (A >= 128) = (255 - M >= 128)
                 /\ (sum % 256 >= 128) # (A >= 128))
         /\ contains(cpu'.status, ZERO_FLAG) = (sum % 256 = 0)
         /\ contains(cpu'.status, NEGATIVE_FLAG) = (sum % 256 >= 128)
         /\ (cpu.program_counter = LoadBase + 4 => cpu'.register_a = cpu'.register_x)
    ]_vars

\* the sequence has run to its end with A = 0x50 and M = 0xF0 (the addition
\* carried out of bit 7, the subtraction borrowed)
C17_Witness ==
    /\ op = [name |-> "step", arg |-> \hE9]
    /\ cpu.program_counter = LoadBase + 6
    /\ peek(bus, LoadBase + 2) = \hF0
    /\ cpu.register_a = \h50
    /\ cpu.register_x = \h50
    /\ ~contains(cpu.status, CARRY_FLAG)


(***************************************************************************)
(* C18: CMP, CPX, CPY.                                                     *)
(***************************************************************************)
CompareCodes == {\hC9, \hE0, \hC0}
EdgeBytes == {\h00, \h01, \h7F, \h80, \hFF}

\* the register an opcode compares
compared(c, code) ==
    CASE code = \hC9 -> c.register_a
      [] code = \hE0 -> c.register_x
      [] code = \hC0 -> c.register_y

\* the compare of register value r with #M: r in the compared register and
\* 255 - r in the other two
CompareSetup(code, r, mm, status) ==
    Setup(<< code, mm >>,
          IF code = \hC9 THEN r ELSE 255 - r,
          IF code = \hE0 THEN r ELSE 255 - r,
          IF code = \hC0 THEN r ELSE 255 - r,
          status, STACK_RESET)

\* every register value against every operand with Overflow clear, and
\* against the edge operands with Overflow set
InitCompare ==
    \/ \E code \in CompareCodes, r \in Byte, mm \in Byte :
           InitLoaded({ CompareSetup(code, r, mm, 36) })
    \/ \E code \in CompareCodes, r \in Byte, mm \in EdgeBytes :
           InitLoaded({ CompareSetup(code, r, mm, 36 + OVERFLOW_FLAG) })
SpecCompare == InitCompare /\ [][CpuStep]_vars

\* C18: CMP, CPX and CPY with register value R and operand M set Carry iff
\* R >= M, Zero iff R = M and Negative to bit 7 of (R - M) mod 256, and leave
\* the Overflow flag, the three registers, the stack pointer and the bus
\* (memory included) as they were, without a fault.
C18_Compare ==
    [][\A code \in CompareCodes :
         stepped(code) =>
           LET R == compared(cpu, code)
               M == operand(cpu, bus)
           IN
           /\ fault' = "none"
           /\ contains(cpu'.status, CARRY_FLAG) = (R >= M)
           /\ contains(cpu'.status, ZERO_FLAG) = (R = M)
           /\ contains(cpu'.status, NEGATIVE_FLAG) = ((R + 256 - M) % 256 >= 128)
           /\ contains(cpu'.status, OVERFLOW_FLAG) = contains(cpu.status, OVERFLOW_FLAG)
           /\ cpu'.register_a = cpu.register_a
           /\ cpu'.register_x = cpu.register_x
           /\ cpu'.register_y = cpu.register_y
           /\ cpu'.stack_pointer = cpu.stack_pointer
           /\ bus' = bus
    ]_vars

\* CPX #$80 has run on X = 0x7F with Overflow set: the difference 0xFF is
\* negative, there was a borrow, Overflow is still set
C18_Witness ==
    /\ op = [name |-> "step", arg |-> \hE0]
    /\ peek(bus, LoadBase + 1) = \h80
    /\ cpu.register_x = \h7F
    /\ cpu.register_a = \h80
    /\ contains(cpu.status, NEGATIVE_FLAG)
    /\ contains(cpu.status, OVERFLOW_FLAG)
    /\ ~contains(cpu.status, CARRY_FLAG)
    /\ ~contains(cpu.status, ZERO_FLAG)


(***************************************************************************)
(* C19: JMP (indirect).                                                    *)
(***************************************************************************)
\* JMP (P) with lo at P, same at the start of P's page and next at P + 1,
\* for pointer addresses in RAM: two at the end of a page, one inside a page
JmpSetups ==
    LET Pointers    == {\h02FF, \h03FF, \h0210}
        TargetLows  == {\h00, \h01, \h80, \hFF}
        TargetHighs == {\h00, \h06, \h10}
    IN
    { WithData(Setup(<< \h6C, P % 256, P \div 256 >>, 0, 0, 0, 36, STACK_RESET),
               << << P - (P % 256), same >>, << P + 1, next >>, << P, lo >> >>)
      : P \in Pointers, lo \in TargetLows, same \in TargetHighs, next \in TargetHighs }

SpecJmp == InitLoaded(JmpSetups) /\ [][CpuStep]_vars

\* the target the page-wrap rule gives the JMP (indirect) at the program
\* counter
IndirectTarget(c, b) ==
    LET P == peek_u16(b, wrapping_add_u16(c.program_counter, 1)) IN
    IF P % 256 = \hFF
    THEN peek(b, P - \hFF) * 256 + peek(b, P)
    ELSE peek(b, wrapping_add_u16(P, 1)) * 256 + peek(b, P)

\* C19: JMP indirect with pointer address P jumps to
\* (mem[P & 0xFF00] << 8) | mem[P] when the low byte of P is 0xFF and to
\* (mem[P+1] << 8) | mem[P] otherwise: the instruction ends with the program
\* counter at that target.
C19_IndirectJmp ==
    [][stepped(\h6C) =>
         /\ fault' = "none"
         /\ cpu'.program_counter = IndirectTarget(cpu, bus)
    ]_vars


(***************************************************************************)
(* C20: stack push and pop.                                                *)
(***************************************************************************)
\* PHA ; LDA #k ; PLA, with k another byte than the one pushed
ProgPushThenPop(v) == << \h48, \hA9, IF v = 0 THEN \hFF ELSE 0, \h68 >>

\* every byte v in the accumulator (copied to X) with every stack pointer s
\* (copied to Y)
InitStack ==
    \E v \in Byte, s \in Byte :
        InitLoaded({ Setup(ProgPushThenPop(v), v, v, s, 36, s) })

SpecStack == InitStack /\ [][CpuStep]_vars

\* C20: for every byte v and stack pointer s, the push writes v at 0x0100 + s
\* and leaves the stack pointer at (s - 1) mod 256, and the pop that follows
\* returns v and leaves the stack pointer at s; neither faults, also where the
\* pointer wraps.
C20_PushPop ==
    [][/\ stepped(\h48) =>
            /\ fault' = "none"
            /\ peek(bus', STACK + cpu.stack_pointer) = cpu.register_a
            /\ cpu'.stack_pointer = (cpu.stack_pointer + 255) % 256
       /\ stepped(\h68) =>
            /\ fault' = "none"
            /\ cpu.register_a # cpu.register_x
            /\ cpu'.register_a = cpu.register_x
            /\ cpu'.stack_pointer = (cpu.stack_pointer + 1) % 256
            /\ cpu'.stack_pointer = cpu.register_y
    ]_vars

\* 0x5A was pushed with the stack pointer at 0x00 and popped again: the byte
\* is at 0x0100 and in the accumulator, the pointer has wrapped to 0xFF and
\* back
C20_Witness ==
    /\ op = [name |-> "step", arg |-> \h68]
    /\ cpu.stack_pointer = 0
    /\ cpu.register_y = 0
    /\ cpu.register_a = \h5A
    /\ cpu.register_x = \h5A
    /\ peek(bus, STACK) = \h5A


(***************************************************************************)
(* C21: PHP, PLP, RTI.                                                     *)
(***************************************************************************)
\* the status bytes the register can hold: Break clear, bit 5 set
StatusBytes == { s \in Byte : contains(s, BREAK2_COMMAND) /\ ~contains(s, BREAK_COMMAND) }
OtherFlags ==
    {CARRY_FLAG, ZERO_FLAG, INTERRUPT_DISABLE, 8, OVERFLOW_FLAG, NEGATIVE_FLAG}

\* PHP from every status byte, with the stack pointer inside the page and at
\* its wrap
PhpSetups ==
    { Setup(<< \h08 >>, 0, 0, 0, s, sp) : s \in StatusBytes, sp \in {STACK_RESET, 0} }
\* PLP with every byte b on top of the stack
PlpSetups ==
    { WithData(Setup(<< \h28 >>, 0, 0, 0, s, \hFC), << << \h01FD, b >> >>)
      : b \in Byte, s \in {36, \hEF} }
\* RTI with every byte b on top of the stack and the return address 0x0700
\* under it
RtiSetups ==
    { WithData(Setup(<< \h40 >>, 0, 0, 0, s, \hFC),
               << << \h01FD, b >>, << \h01FE, \h00 >>, << \h01FF, \h07 >> >>)
      : b \in Byte, s \in {36, \hEF} }

InitStatus == InitLoaded(PhpSetups) \/ InitLoaded(PlpSetups) \/ InitLoaded(RtiSetups)
SpecStatus == InitStatus /\ [][CpuStep]_vars

\* C21: PHP pushes the status byte with bit 5 and bit 4 (Break) set and leaves
\* the status register unchanged; after PLP or RTI the status register has
\* Break clear and bit 5 set whatever byte was popped, and its other six bits
\* equal the popped byte.
C21_StatusOnStack ==
    [][/\ stepped(\h08) =>
            LET pushed == peek(bus', STACK + cpu.stack_pointer) IN
            /\ fault' = "none"
            /\ contains(pushed, BREAK_COMMAND)
            /\ contains(pushed, BREAK2_COMMAND)
            /\ \A f \in OtherFlags : contains(pushed, f) = contains(cpu.status, f)
            /\ cpu'.status = cpu.status
       /\ stepped(\h28) \/ stepped(\h40) =>
            LET popped == peek(bus, STACK + wrapping_add_u8(cpu.stack_pointer, 1)) IN
            /\ fault' = "none"
            /\ ~contains(cpu'.status, BREAK_COMMAND)
            /\ contains(cpu'.status, BREAK2_COMMAND)
            /\ \A f \in OtherFlags : contains(cpu'.status, f) = contains(popped, f)
    ]_vars

\* RTI has popped the byte 0xDF (Break set, bit 5 clear): the status register
\* is 0xEF and execution is at the return address
C21_Witness ==
    /\ op = [name |-> "step", arg |-> \h40]
    /\ peek(bus, \h01FD) = \hDF
    /\ cpu.status = \hEF
    /\ cpu.program_counter = \h0700
    /\ cpu.stack_pointer = \hFF


(***************************************************************************)
(* C22: Control write and the pending NMI.                                 *)
(***************************************************************************)
\* C22: a Control-register write latches a pending NMI if and only if the
\* NMI-generation bit was clear before the write, is set by the write, and
\* vblank-started is set at that moment; in every other case the write leaves
\* the pending-NMI flag as it was.
C22_CtrlLatch ==
    [][op'.name = "write_to_ctrl" =>
         /\ ppu'.ctrl = op'.arg
         /\ ppu'.nmi_interrupt =
              IF /\ ~contains(ppu.ctrl, GENERATE_NMI)
                 /\ contains(op'.arg, GENERATE_NMI)
                 /\ contains(ppu.status, VBLANK_STARTED)
              THEN Some(1)
              ELSE ppu.nmi_interrupt
    ]_vars

\* a write has just set the NMI-generation bit inside the vertical blank of a
\* frame that entered it with the bit clear and no NMI: the NMI is pending
C22_Witness ==
    /\ op = [name |-> "write_to_ctrl", arg |-> GENERATE_NMI]
    /\ ppu.scanline > VblankLine
    /\ contains(ppu.status, VBLANK_STARTED)
    /\ ppu.nmi_interrupt = Some(1)
    /\ ~delivered


(***************************************************************************)
(* The register ports of the stand-alone PPU.                              *)
(***************************************************************************)
\* n calls of tick(d)
RECURSIVE run_ticks(_, _, _)
run_ticks(p, d, n) ==
    CASE n = 0 -> p
      [] n = 1 -> NesPPU_tick(p, d).ppu
      [] OTHER -> the({ run_ticks(q, d, n - n \div 2) : q \in {run_ticks(p, d, n \div 2)} })

\* a new PPU; the same in the vertical blank of its first frame (323 ticks of
\* 255 dots: scanline 241); and in the vertical blank with NMI generation
\* enabled from the start (NMI pending)
PortPPUs ==
    { NesPPU_new_empty_rom,
      run_ticks(NesPPU_new_empty_rom, 255, 323),
      run_ticks(write_to_ctrl(NesPPU_new_empty_rom, GENERATE_NMI), 255, 323) }

InitPorts(ppus) ==
    /\ ppu \in ppus
    /\ dots_total = position(ppu)
    /\ bus = Bus_new(Rom(Image(\h4000, ProgEnableNmi), Chr(\h2000, 1), "HORIZONTAL"))
    /\ cpu = CPU_new
    /\ loop = "idle"
    /\ overflow_checks = FALSE
    /\ fault = "none"
    /\ op = [name |-> "new", arg |-> 0]
    /\ ret = 0
    /\ callbacks = 0
    /\ cb_seen = None
    /\ frame = [cb |-> 0, gen |-> None]
    /\ done = None
    /\ wraps = 0
    /\ accesses = 0
    /\ delivered = FALSE

PpuWriteAddr(v) ==
    /\ fault = "none"
    /\ ppu' = write_to_ppu_addr(ppu, v)
    /\ ret' = 0
    /\ op' = [name |-> "write_to_ppu_addr", arg |-> v]
    /\ UNCHANGED << dots_total, delivered, bus_vars, cpu_vars, overflow_checks, fault >>

PpuWriteScroll(v) ==
    /\ fault = "none"
    /\ ppu' = write_to_scroll(ppu, v)
    /\ ret' = 0
    /\ op' = [name |-> "write_to_scroll", arg |-> v]
    /\ UNCHANGED << dots_total, delivered, bus_vars, cpu_vars, overflow_checks, fault >>

(***************************************************************************)
(* C23: Status read.                                                       *)
(***************************************************************************)
LatchAddrBytes == {\h00, \h05, \h23, \h3F, \h63, \hFF}
LatchScrollBytes == {\h11, \h22}

NextLatch ==
    \/ \E v \in LatchAddrBytes : PpuWriteAddr(v)
    \/ \E v \in LatchScrollBytes : PpuWriteScroll(v)
    \/ PpuReadStatus

SpecLatch == InitPorts(PortPPUs) /\ [][NextLatch]_vars

\* C23: a Status read returns the status byte as it was before the read, then
\* clears only the vblank-started bit and resets both write latches, so that
\* the next Address write sets the high byte and the next Scroll write the
\* horizontal offset; it changes neither the VRAM pointer value nor the
\* pending-NMI flag (nor anything else of the PPU).
C23_StatusRead ==
    [][/\ op'.name = "read_status" =>
            /\ ret' = ppu.status
            /\ ppu' = [ppu EXCEPT !.status = IF contains(@, VBLANK_STARTED)
                                             THEN @ - VBLANK_STARTED ELSE @,
                                  !.addr.hi_ptr = TRUE,
                                  !.scroll.latch = FALSE]
            /\ AddrRegister_get(ppu'.addr) = AddrRegister_get(ppu.addr)
            /\ ppu'.nmi_interrupt = ppu.nmi_interrupt
       /\ op.name = "read_status" /\ op'.name = "write_to_ppu_addr" =>
            /\ ppu'.addr.value = << op'.arg % 64, ppu.addr.value[2] >>
       /\ op.name = "read_status" /\ op'.name = "write_to_scroll" =>
            /\ ppu'.scroll.h_scroll = op'.arg
            /\ ppu'.scroll.v_scroll = ppu.scroll.v_scroll
    ]_vars

\* a Status read in the vertical blank, with an NMI pending and both latches
\* half-way, has returned the byte with the vblank bit: the bit is clear, the
\* latches are reset, the pointer bytes and the NMI are as they were
C23_Witness ==
    /\ op = [name |-> "read_status", arg |-> 0]
    /\ contains(ret, VBLANK_STARTED)
    /\ ~contains(ppu.status, VBLANK_STARTED)
    /\ ppu.nmi_interrupt = Some(1)
    /\ ppu.addr = [value |-> << \h23, \h05 >>, hi_ptr |-> TRUE]
    /\ ppu.scroll = [h_scroll |-> \h11, v_scroll |-> \h22, latch |-> FALSE]


(***************************************************************************)
(* C24: the VRAM pointer.                                                  *)
(***************************************************************************)
\* the pointer step of a Data access: NesPPU::increment_vram_addr, as
\* read_data and write_to_data call it
PpuIncrement ==
    /\ fault = "none"
    /\ ppu' = increment_vram_addr(ppu)
    /\ ret' = 0
    /\ op' = [name |-> "increment_vram_addr", arg |-> vram_addr_increment(ppu.ctrl)]
    /\ UNCHANGED << dots_total, delivered, bus_vars, cpu_vars, overflow_checks, fault >>

PointerBytes == {\h05, \h3F, \h63, \hFF}

NextPointer ==
    \/ \E v \in PointerBytes : PpuWriteAddr(v)
    \/ \E v \in {0, VRAM_ADD_INCREMENT} : PpuWriteCtrl(v)
    \/ PpuReadStatus
    \/ PpuIncrement

SpecPointer == InitPorts({NesPPU_new_empty_rom}) /\ [][NextPointer]_vars

\* C24: Address writes alternate between the high and the low byte of the
\* VRAM pointer, starting with the high byte after construction or a status
\* read, and the pointer is masked to 14 bits: an Address write replaces the
\* byte the latch selects (the high byte modulo 64), a Data-access increment
\* adds 1 or 32 modulo 0x4000, and the pointer is always in 0x0000..0x3FFF.
C24_Pointer ==
    [][/\ (op.name \in {"new", "read_status"}) => ppu.addr.hi_ptr
       /\ AddrRegister_get(ppu.addr) <= \h3FFF
       /\ AddrRegister_get(ppu'.addr) <= \h3FFF
       /\ op'.name = "write_to_ppu_addr" =>
            /\ ppu'.addr.hi_ptr = ~ppu.addr.hi_ptr
            /\ AddrRegister_get(ppu'.addr) =
                 IF ppu.addr.hi_ptr
                 THEN (op'.arg % 64) * 256 + (AddrRegister_get(ppu.addr) % 256)
                 ELSE (AddrRegister_get(ppu.addr) \div 256) * 256 + op'.arg
       /\ op'.name = "increment_vram_addr" =>
            /\ op'.arg = IF contains(ppu.ctrl, VRAM_ADD_INCREMENT) THEN 32 ELSE 1
            /\ AddrRegister_get(ppu'.addr) =
                 (AddrRegister_get(ppu.addr) + op'.arg) % (\h3FFF + 1)
            /\ ppu'.addr.hi_ptr = ppu.addr.hi_ptr
    ]_vars

\* the pointer has just been incremented by 1 from 0x3FFF: it is 0x0000
C24_Witness ==
    /\ op = [name |-> "increment_vram_addr", arg |-> 1]
    /\ AddrRegister_get(ppu.addr) = 0
    /\ ~ppu.addr.hi_ptr


(***************************************************************************)
(* C25, C26: the Data register.                                            *)
(***************************************************************************)
\* the VRAM pointer of a PPU, its step, and whether a bus operation is an
\* access of the Data register
pointer(p) == AddrRegister_get(p.addr)
step_of(p) == IF contains(p.ctrl, VRAM_ADD_INCREMENT) THEN 32 ELSE 1
data_read(o) == o.name = "mem_read" /\ hits_data(o.arg)
data_write(o) == o.name = "mem_write" /\ hits_data(o.arg[1])

\* the palette cell a pointer in 0x3F00..0x3FFF names: the 32-byte table
\* repeats, and 0x10/0x14/0x18/0x1C alias 0x00/0x04/0x08/0x0C
palette_cell(P) ==
    IF (P % 32) \in {\h10, \h14, \h18, \h1C} THEN (P % 32) - \h10 ELSE P % 32

\* the byte behind a pointer in pattern or nametable space
stored_byte(p, P) ==
    IF P <= \h1FFF THEN ChrByte(p.chr_rom, P)
                   ELSE cell_get(p.vram, mirror_vram_addr(p, P))

\* C25: a Data read with the VRAM pointer in 0x0000..0x2FFF returns the byte
\* in the read buffer and reloads the buffer from the current pointer; with
\* the pointer in palette space (0x3F00..0x3FFF) it returns the palette byte
\* immediately and leaves the buffer unchanged; in both cases the pointer then
\* advances by 1, or by 32 when the increment bit is set.  (Cartridges with
\* horizontal or vertical mirroring.)
C25_DataRead ==
    [][(data_read(op') /\ bus.ppu.mirroring # "FOUR_SCREEN") =>
         LET P == pointer(bus.ppu) IN
         /\ P <= \h2FFF =>
              /\ fault' = "none"
              /\ ret' = bus.ppu.internal_data_buf
              /\ bus'.ppu.internal_data_buf = stored_byte(bus.ppu, P)
              /\ pointer(bus'.ppu) = (P + step_of(bus.ppu)) % \h4000
         /\ P >= \h3F00 =>
              /\ fault' = "none"
              /\ ret' = cell_get(bus.ppu.palette_table, palette_cell(P))
              /\ bus'.ppu.internal_data_buf = bus.ppu.internal_data_buf
              /\ pointer(bus'.ppu) = (P + step_of(bus.ppu)) % \h4000
    ]_vars

\* C26: a Data write stores the byte at the current VRAM pointer, in
\* nametable VRAM after mirroring or in the palette table (with the four
\* aliases), never modifies CHR space, and afterwards advances the pointer by
\* 1, or by 32 when the increment bit is set.  (Cartridges with horizontal or
\* vertical mirroring; pointers in pattern, nametable and palette space.)
C26_DataWrite ==
    [][(data_write(op') /\ bus.ppu.mirroring # "FOUR_SCREEN"
            /\ (pointer(bus.ppu) <= \h2FFF \/ pointer(bus.ppu) >= \h3F00)) =>
         LET P == pointer(bus.ppu)
             v == op'.arg[2]
         IN
         /\ fault' = "none"
         /\ bus'.ppu.chr_rom = bus.ppu.chr_rom
         /\ pointer(bus'.ppu) = (P + step_of(bus.ppu)) % \h4000
         /\ bus'.ppu.vram =
              IF P >= \h2000 /\ P <= \h2FFF
              THEN cell_set(bus.ppu.vram, mirror_vram_addr(bus.ppu, P), v)
              ELSE bus.ppu.vram
         /\ bus'.ppu.palette_table =
              IF P >= \h3F00
              THEN cell_set(bus.ppu.palette_table, palette_cell(P), v)
              ELSE bus.ppu.palette_table
    ]_vars


(***************************************************************************)
(* C27: nametable mirroring.                                               *)
(***************************************************************************)
PpuReadData ==
    /\ fault = "none"
    /\ accesses < MaxAccesses
    /\ \E r \in {read_data(ppu)} :
           /\ ppu' = r.ppu
           /\ ret' = r.ret
           /\ fault' = r.fault
    /\ accesses' = accesses + 1
    /\ op' = [name |-> "read_data", arg |-> 0]
    /\ UNCHANGED << bus, callbacks, cb_seen, frame, done, wraps,
                    dots_total, delivered, cpu_vars, overflow_checks >>

PpuWriteData(v) ==
    /\ fault = "none"
    /\ accesses < MaxAccesses
    /\ \E r \in {write_to_data(ppu, v)} :
           /\ ppu' = r.ppu
           /\ fault' = r.fault
    /\ ret' = 0
    /\ accesses' = accesses + 1
    /\ op' = [name |-> "write_to_data", arg |-> v]
    /\ UNCHANGED << bus, callbacks, cb_seen, frame, done, wraps,
                    dots_total, delivered, cpu_vars, overflow_checks >>

\* pointer bytes that reach the four logical nametables
MirrorBytes == {\h20, \h24, \h28, \h2C}
MirrorPPUs == { NesPPU_new(Chr(\h2000, 1), m) : m \in {"HORIZONTAL", "VERTICAL"} }

NextMirror ==
    \/ \E v \in MirrorBytes : PpuWriteAddr(v)
    \/ \E v \in {\h5A, \hA5} : PpuWriteData(v)
    \/ PpuReadData

SpecMirror == InitPorts(MirrorPPUs) /\ [][NextMirror]_vars

\* the logical nametable and the offset of a nametable address, and the
\* physical bank the mirroring mode gives the table
logical_table(Q) == (Q - \h2000) \div \h0400
table_offset(Q) == Q % \h0400
physical_bank(mirroring, t) ==
    IF mirroring = "HORIZONTAL" THEN (IF t \in {0, 1} THEN 0 ELSE 1)
                                ELSE (IF t \in {0, 2} THEN 0 ELSE 1)
shares_cell(p, P, Q) ==
    /\ table_offset(P) = table_offset(Q)
    /\ physical_bank(p.mirroring, logical_table(P))
         = physical_bank(p.mirroring, logical_table(Q))

\* nametable addresses through which the memory is observed
ProbeAddrs == { hi * 256 + lo : hi \in MirrorBytes, lo \in MirrorBytes }

\* C27: with horizontal mirroring logical nametables 0 and 1 share one
\* physical bank and 2 and 3 the other, with vertical mirroring 0 and 2 share
\* one and 1 and 3 the other: every address 0x2000..0x2FFF maps to its offset
\* in its table's bank, inside the 2KB VRAM; a Data write through a nametable
\* address changes the byte behind every address that shares its cell and
\* behind no other; a Data read loads the byte behind its address.
C27_Mirroring ==
    [][/\ op.name = "new" =>
            \A Q \in \h2000..\h2FFF :
                /\ mirror_vram_addr(ppu, Q) < VramSize
                /\ mirror_vram_addr(ppu, Q) =
                     physical_bank(ppu.mirroring, logical_table(Q)) * \h0400
                       + table_offset(Q)
       /\ op'.name = "write_to_data" =>
            /\ fault' = "none"
            /\ \A Q \in ProbeAddrs :
                 stored_byte(ppu', Q) =
                   IF shares_cell(ppu, pointer(ppu), Q) THEN op'.arg
                                                        ELSE stored_byte(ppu, Q)
       /\ op'.name = "read_data" =>
            /\ fault' = "none"
            /\ ppu'.vram = ppu.vram
            /\ ppu'.internal_data_buf = stored_byte(ppu, pointer(ppu))
            /\ \A Q \in ProbeAddrs :
                 shares_cell(ppu, pointer(ppu), Q) =>
                   ppu'.internal_data_buf = stored_byte(ppu, Q)
    ]_vars

\* horizontal mirroring: the byte 0x5A is in bank 0 at offset 0x20 and
\* nowhere else, and a Data read through 0x2420, in logical nametable 1, has
\* loaded it
C27_Witness ==
    /\ ppu.mirroring = "HORIZONTAL"
    /\ op.name = "read_data"
    /\ pointer(ppu) = \h2421
    /\ ppu.vram = (32 :> \h5A)
    /\ ppu.internal_data_buf = \h5A
    /\ stored_byte(ppu, \h2020) = \h5A
    /\ stored_byte(ppu, \h2820) = 0


(***************************************************************************)
(* OAM: the cursor, the Data port and DMA (registers/oam.rs, the OAM       *)
(* functions of ppu/mod.rs, the 0x2003, 0x2004 and 0x4014 arms of bus.rs). *)
(***************************************************************************)
\* the buffer of test_oam_dma, and a buffer whose bytes are all different
DmaBuffers ==
    { [i \in 0..255 |-> IF i = 0 THEN \h77 ELSE IF i = 255 THEN \h88 ELSE \h66],
      [i \in 0..255 |-> i] }
OamCursors == {\h10, \hFF}

\* the byte a program has stored at offset i of RAM page 2 before the transfer
SpritePage == \h02
sprite_byte(i) == (3 * i + 1) % 256
SpriteRam ==
    [a \in { SpritePage * 256 + i : i \in { j \in 0..255 : sprite_byte(j) # 0 } }
       |-> sprite_byte(a - SpritePage * 256)]

\* pages a transfer reads: RAM, a RAM mirror, the PPU registers, PRG ROM
DmaPages == {SpritePage, \h0A, \h20, \hFF}

\* the machine with the sprite page filled, its PPU as constructed or
\* inside vertical blank
InitDma ==
    /\ ppu = NesPPU_new_empty_rom
    /\ dots_total = 0
    /\ \E b \in {Bus_new(Rom(Image(\h4000, ProgEnableNmi), Chr(\h2000, 1), "HORIZONTAL"))} :
       \E n \in {0, 323} :
           bus = [b EXCEPT !.cpu_vram = SpriteRam,
                           !.ppu = run_ticks(@, 255, n), !.cycles = 85 * n]
    /\ cpu = CPU_new
    /\ loop = "idle"
    /\ overflow_checks = FALSE
    /\ fault = "none"
    /\ op = [name |-> "new", arg |-> 0]
    /\ ret = 0
    /\ callbacks = 0
    /\ cb_seen = None
    /\ frame = [cb |-> 0, gen |-> None]
    /\ done = None
    /\ wraps = 0
    /\ accesses = 0
    /\ delivered = FALSE

PpuWriteOamAddr(v) ==
    /\ fault = "none"
    /\ ppu' = write_to_oam_addr(ppu, v)
    /\ ret' = 0
    /\ op' = [name |-> "write_to_oam_addr", arg |-> v]
    /\ UNCHANGED << dots_total, delivered, bus_vars, cpu_vars, overflow_checks, fault >>

PpuWriteOamDma(data) ==
    /\ fault = "none"
    /\ accesses < MaxAccesses
    /\ ppu' = write_oam_dma(ppu, data)
    /\ ret' = 0
    /\ accesses' = accesses + 1
    /\ op' = [name |-> "write_oam_dma", arg |-> data]
    /\ UNCHANGED << bus, callbacks, cb_seen, frame, done, wraps,
                    dots_total, delivered, cpu_vars, overflow_checks, fault >>

\* mem_write(0x4014, page)
BusOamDma(pg) ==
    /\ fault = "none"
    /\ accesses < MaxAccesses
    /\ \E r \in {Bus_mem_write(bus, \h4014, pg)} :
           /\ bus' = r.bus
           /\ fault' = r.fault
    /\ ret' = 0
    /\ accesses' = accesses + 1
    /\ op' = [name |-> "mem_write", arg |-> << \h4014, pg >>]
    /\ UNCHANGED << callbacks, cb_seen, frame, done, wraps,
                    ppu_vars, cpu_vars, overflow_checks >>

NextDma ==
    \/ \E v \in OamCursors : PpuWriteOamAddr(v)
    \/ \E data \in DmaBuffers : PpuWriteOamDma(data)
    \/ \E v \in OamCursors : BusWrite(\h2003, v)
    \/ \E pg \in DmaPages : BusOamDma(pg)

SpecDma == InitDma /\ [][NextDma]_vars

\* OAM[i]
oam_byte(o, i) == cell_get(o.oam_data, i)

\* the byte the read of address page * 256 + i returns during a transfer,
\* told from the bus before the transfer: outside the PPU registers the
\* reads change nothing; in a register page every eighth read is of the
\* same register, and the reads of Status and Data change the PPU
dma_source(b, pg, i) ==
    CASE pg < \h20 \/ pg > \h3F -> peek(b, pg * 256 + i)
      [] pg >= \h20 /\ pg <= \h3F /\ i % 8 = 2 ->
           IF i \div 8 = 0 THEN b.ppu.status ELSE reset_vblank_started(b.ppu.status)
      [] pg >= \h20 /\ pg <= \h3F /\ i % 8 = 4 -> get_data(b.ppu.oam)
      [] pg >= \h20 /\ pg <= \h3F /\ i % 8 = 7 ->
           IF i \div 8 = 0 THEN b.ppu.internal_data_buf
           ELSE stored_byte(b.ppu, pointer(b.ppu) + (i \div 8 - 1) * step_of(b.ppu))
      [] OTHER -> 0

\* a PPU differs from another in its OAM only
same_but_oam(p, q) ==
    q = [p EXCEPT !.oam = q.oam, !.oam_addr = q.oam_addr, !.oam_data = q.oam_data]

\* C28: an OAM DMA of a 256-byte buffer with the OAM cursor at c stores
\* buffer[i] at OAM[(c + i) mod 256] for every i in 0..255 and leaves the
\* cursor at c; a write of page P to 0x4014 transfers the 256 bytes read at
\* addresses P*256 + 0..255, and changes neither RAM nor the cycle counter.
C28_OamDma ==
    [][ /\ op'.name = "write_oam_dma"
            => /\ \A i \in 0..255 :
                      oam_byte(ppu'.oam, (ppu.oam.oam_addr + i) % 256) = op'.arg[i]
               /\ ppu'.oam.oam_addr = ppu.oam.oam_addr
               /\ same_but_oam(ppu, ppu')
        /\ (op'.name = "mem_write" /\ op'.arg[1] = \h4014 /\ fault' = "none")
            => /\ \A i \in 0..255 :
                      oam_byte(bus'.ppu.oam, (bus.ppu.oam.oam_addr + i) % 256)
                        = dma_source(bus, op'.arg[2], i)
               /\ bus'.ppu.oam.oam_addr = bus.ppu.oam.oam_addr
               /\ bus'.cpu_vram = bus.cpu_vram
               /\ bus'.cycles = bus.cycles
               /\ (op'.arg[2] < \h20 \/ op'.arg[2] > \h3F)
                      => same_but_oam(bus.ppu, bus'.ppu) ]_vars

\* a transfer of the sprite page with the cursor at 0x10 has wrapped: byte
\* 255 of the page is at OAM[0x0F], byte 0 at OAM[0x10]
C28_Witness ==
    /\ op.name = "mem_write"
    /\ op.arg = << \h4014, SpritePage >>
    /\ fault = "none"
    /\ bus.ppu.oam.oam_addr = \h10
    /\ oam_byte(bus.ppu.oam, \h10) = sprite_byte(0)
    /\ oam_byte(bus.ppu.oam, \h0F) = sprite_byte(255)
    /\ oam_byte(bus.ppu.oam, \h65) = sprite_byte(85)


PpuWriteOamData(v) ==
    /\ fault = "none"
    /\ accesses < MaxAccesses
    /\ ppu' = write_to_oam_data(ppu, v)
    /\ ret' = 0
    /\ accesses' = accesses + 1
    /\ op' = [name |-> "write_to_oam_data", arg |-> v]
    /\ UNCHANGED << bus, callbacks, cb_seen, frame, done, wraps,
                    dots_total, delivered, cpu_vars, overflow_checks, fault >>

PpuReadOamData ==
    /\ fault = "none"
    /\ ret' = read_oam_data(ppu)
    /\ op' = [name |-> "read_oam_data", arg |-> 0]
    /\ UNCHANGED << ppu_vars, bus_vars, cpu_vars, overflow_checks, fault >>

\* mem_write(0x2004, v)
BusOamData(v) ==
    /\ fault = "none"
    /\ accesses < MaxAccesses
    /\ \E r \in {Bus_mem_write(bus, \h2004, v)} :
           /\ bus' = r.bus
           /\ fault' = r.fault
    /\ ret' = 0
    /\ accesses' = accesses + 1
    /\ op' = [name |-> "mem_write", arg |-> << \h2004, v >>]
    /\ UNCHANGED << callbacks, cb_seen, frame, done, wraps,
                    ppu_vars, cpu_vars, overflow_checks >>

\* the bytes of test_oam_read_write, and zero
OamBytes == {\h00, \h66, \h77}
OamAddrBytes == {\h10, \h11, \hFE, \hFF}

NextOam ==
    \/ \E v \in OamAddrBytes : PpuWriteOamAddr(v)
    \/ \E v \in OamBytes : PpuWriteOamData(v)
    \/ PpuReadOamData
    \/ \E v \in {\h10, \hFF} : BusWrite(\h2003, v)
    \/ \E v \in {\h00, \h66} : BusOamData(v)
    \/ BusRead(\h2004)

SpecOam == InitPorts({NesPPU_new_empty_rom}) /\ [][NextOam]_vars

\* what an OAM Address write of v makes of the registers o
after_oam_addr(o, q, v) ==
    /\ q.oam_addr = v
    /\ q.oam_data = o.oam_data

\* what an OAM Data write of v makes of the registers o: the byte is at the
\* old cursor, every other byte is as before, the cursor is one further, and
\* the byte is read back once the cursor is set to where it was
after_oam_data(o, q, v) ==
    /\ oam_byte(q, o.oam_addr) = v
    /\ \A i \in 0..255 : i # o.oam_addr => oam_byte(q, i) = oam_byte(o, i)
    /\ q.oam_addr = (o.oam_addr + 1) % 256
    /\ get_data(write_addr(q, o.oam_addr)) = v

\* C29: an OAM Address write sets the OAM cursor; an OAM Data write stores
\* the byte at the cursor and advances the cursor by one modulo 256; an OAM
\* Data read returns the byte at the cursor and changes neither the cursor
\* nor any OAM byte, so a byte written at cursor c is read back after the
\* cursor is set to c again.
C29_OamPort ==
    [][ /\ op'.name = "write_to_oam_addr"
            => after_oam_addr(ppu.oam, ppu'.oam, op'.arg) /\ same_but_oam(ppu, ppu')
        /\ op'.name = "write_to_oam_data"
            => after_oam_data(ppu.oam, ppu'.oam, op'.arg) /\ same_but_oam(ppu, ppu')
        /\ op'.name = "read_oam_data"
            => ret' = oam_byte(ppu.oam, ppu.oam.oam_addr) /\ ppu' = ppu
        /\ (op'.name = "mem_write" /\ op'.arg[1] = \h2003)
            => /\ after_oam_addr(bus.ppu.oam, bus'.ppu.oam, op'.arg[2])
               /\ same_but_oam(bus.ppu, bus'.ppu)
        /\ (op'.name = "mem_write" /\ op'.arg[1] = \h2004)
            => /\ after_oam_data(bus.ppu.oam, bus'.ppu.oam, op'.arg[2])
               /\ same_but_oam(bus.ppu, bus'.ppu)
        /\ (op'.name = "mem_read" /\ op'.arg = \h2004)
            => ret' = oam_byte(bus.ppu.oam, bus.ppu.oam.oam_addr) /\ bus' = bus
        /\ fault' = "none" ]_vars

\* test_oam_read_write: 0x66 and 0x77 written from cursor 0x10, the cursor
\* set to 0x10 again and the first byte read back
C29_Witness ==
    /\ op.name = "read_oam_data"
    /\ ret = \h66
    /\ ppu.oam.oam_addr = \h10
    /\ oam_byte(ppu.oam, \h10) = \h66
    /\ oam_byte(ppu.oam, \h11) = \h77


(***************************************************************************)
(* Work RAM and its mirrors (the RAM arms of bus.rs).                      *)
(***************************************************************************)
\* cpu_vram: [u8; 2048]
RamSize == 2048

\* the four mirrors of cell 0, of cell 1 and of the last cell
RamAddrs ==
    { base + cell : base \in {\h0000, \h0800, \h1000, \h1800},
                    cell \in {\h0000, \h0001, \h07FF} }
RamBytes == {\h00, \h5A, \hA5}

NextRam ==
    \/ \E addr \in RamAddrs, data \in RamBytes : BusWrite(addr, data)
    \/ \E addr \in RamAddrs : BusRead(addr)

SpecRam == InitPorts({NesPPU_new_empty_rom}) /\ [][NextRam]_vars

\* addresses through which RAM is observed: the four mirrors of the cells
\* written and of cells never written
RamProbes ==
    { base + cell : base \in {\h0000, \h0800, \h1000, \h1800},
                    cell \in {\h0000, \h0001, \h0002, \h0400, \h07FE, \h07FF} }

\* the cells of the 2KB array that differ between two buses
changed_cells(b, c) ==
    { i \in DOMAIN b.cpu_vram \cup DOMAIN c.cpu_vram
        : array_get(b.cpu_vram, i) # array_get(c.cpu_vram, i) }

\* C30: for every address a in 0x0000..0x1FFF a bus read returns the byte
\* last written to any address of the range congruent to a modulo 0x0800: a
\* write is visible through all four mirrors and changes no other RAM cell,
\* no PPU state and not the cycle counter; a read changes nothing.
C30_RamMirrors ==
    [][ /\ op'.name = "mem_write"
            => /\ \A a \in RamProbes :
                      peek(bus', a) = IF a % RamSize = op'.arg[1] % RamSize
                                      THEN op'.arg[2]
                                      ELSE peek(bus, a)
               /\ changed_cells(bus, bus') \subseteq {op'.arg[1] % RamSize}
               /\ bus'.ppu = bus.ppu
               /\ bus'.cycles = bus.cycles
               /\ bus'.prg_rom = bus.prg_rom
        /\ op'.name = "mem_read"
            => /\ \A a \in RamProbes :
                      a % RamSize = op'.arg % RamSize => ret' = peek(bus, a)
               /\ bus' = bus
        /\ fault' = "none"
        /\ DOMAIN bus'.cpu_vram \subseteq 0..(RamSize - 1) ]_vars

\* 0x5A written through 0x0800 is seen through all four mirrors of cell 0,
\* next to the byte an earlier write through 0x1001 left in cell 1
C30_Witness ==
    /\ op.name = "mem_write"
    /\ op.arg = << \h0800, \h5A >>
    /\ \A base \in {\h0000, \h0800, \h1000, \h1800} :
           peek(bus, base) = \h5A /\ peek(bus, base + 1) = \hA5
    /\ peek(bus, \h07FF) = 0


(***************************************************************************)
(* reset on a machine that has been used (CPU::reset).                     *)
(***************************************************************************)
\* register files a run has left behind
UsedCpus ==
    { [ register_a |-> \h5A, register_x |-> \h01, register_y |-> \hFF,
        status |-> \hE5, program_counter |-> \h8007, stack_pointer |-> \h80 ],
      [ register_a |-> \hFF, register_x |-> \h80, register_y |-> \h01,
        status |-> \h27, program_counter |-> \h0000, stack_pointer |-> \hFF ] }

\* writes that fill work RAM, VRAM, the palette table, OAM and the PPU
\* registers before the reset
ResetWrites ==
    { << \h0000, \h5A >>, << \h07FF, \hA5 >>, << \h2000, \h84 >>,
      << \h2003, \h10 >>, << \h2006, \h20 >>, << \h2006, \h3F >>,
      << \h2007, \h77 >> }

InitReset ==
    /\ ppu = NesPPU_new_empty_rom
    /\ dots_total = 0
    /\ \E image \in {Image(\h4000, ProgEnableNmi), Image(\h8000, ProgCountThenBrk)} :
       \E n \in {0, 323} :
           bus = [Bus_new(Rom(image, Chr(\h2000, 1), "HORIZONTAL"))
                    EXCEPT !.ppu = run_ticks(@, 255, n), !.cycles = 85 * n]
    /\ cpu \in UsedCpus
    /\ loop = "idle"
    /\ overflow_checks = FALSE
    /\ fault = "none"
    /\ op = [name |-> "new", arg |-> 0]
    /\ ret = 0
    /\ callbacks = 0
    /\ cb_seen = None
    /\ frame = [cb |-> 0, gen |-> None]
    /\ done = None
    /\ wraps = 0
    /\ accesses = 0
    /\ delivered = FALSE

NextReset ==
    \/ \E w \in ResetWrites : loop = "idle" /\ BusWrite(w[1], w[2])
    \/ loop = "idle" /\ BusOamData(\h66)
    \/ Reset

SpecReset == InitReset /\ [][NextReset]_vars

\* C31: reset zeroes the accumulator and the X and Y registers and reloads
\* the program counter from the little-endian word at 0xFFFC/0xFFFD, and
\* leaves every memory content unchanged: work RAM, VRAM, palette table, OAM
\* and the PPU registers and counters.
C31_Reset ==
    [][ op'.name = "reset"
            => /\ cpu'.register_a = 0
               /\ cpu'.register_x = 0
               /\ cpu'.register_y = 0
               /\ cpu'.program_counter = peek(bus, \hFFFC) + 256 * peek(bus, \hFFFD)
               /\ bus' = bus
               /\ ppu' = ppu
               /\ fault' = "none" ]_vars

\* a reset of a machine whose RAM, VRAM and OAM hold bytes and whose PPU is
\* inside vertical blank
C31_Witness ==
    /\ op.name = "reset"
    /\ cpu.register_a = 0 /\ cpu.register_x = 0 /\ cpu.register_y = 0
    /\ cpu.program_counter = \h8000
    /\ array_get(bus.cpu_vram, \h07FF) = \hA5
    /\ cell_get(bus.ppu.vram, 0) = \h77
    /\ oam_byte(bus.ppu.oam, \h10) = \h66
    /\ bus.ppu.scanline = VblankLine
    /\ bus.ppu.ctrl = \h84


(***************************************************************************)
(* The dispatch of the run loop on every opcode byte (SpecDispatch).       *)
(***************************************************************************)
\* the operand bytes behind the opcode: a zero-page / absolute operand in
\* work RAM.  An opcode of length 1 or 2 leaves them to be fetched as
\* opcodes in turn
DispatchOperands == { << \h10, \h00 >>, << \h20, \h03 >> }

\* every opcode byte loaded at 0x0600 with two operand bytes behind it, in a
\* build with and without overflow checks
InitDispatch ==
    \E code \in Byte, operands \in DispatchOperands, checks \in BOOLEAN :
        InitLoaded({ WithChecks(Setup(<< code, operands[1], operands[2] >>,
                                      \h5A, \h03, \h11, \h24, \hFD), checks) })

SpecDispatch == InitDispatch /\ [][CpuStep]_vars

\* C12: every opcode byte has exactly one entry in the opcode table and the
\* iteration that fetches it runs a handler: it ends neither in the failed
\* table lookup, nor in the unknown-opcode crash, nor in an address
\* resolution with NoneAddressing, whatever the byte.
C12_DispatchTotal ==
    op.name = "step"
        => /\ Cardinality(table_entries(op.arg)) = 1
           /\ fault \notin {"not_recognized", "unexpected_opcode", "mode_not_supported"}

\* the last byte of the table, the unofficial ISB $0010,X, has been executed
\* with X = 3: the cell at 0x0013 went from 0 to 1 and was subtracted from
\* the accumulator, the program counter is behind the three bytes
C12_Witness ==
    /\ op = [name |-> "step", arg |-> \hFF]
    /\ fault = "none"
    /\ loop = "running"
    /\ cpu.program_counter = LoadBase + 3
    /\ array_get(bus.cpu_vram, \h13) = 1
    /\ cpu.register_a = \h58


(***************************************************************************)
(* The end of the run: BRK (the 0x00 arm of run_with_callback, CPU::brk).  *)
(***************************************************************************)
\* BRK first; BRK after NOP, LDA #$00 (an operand byte 0x00) and INX, with
\* an INX behind it; BRK reached by a JMP over a BRK-free stretch; BRK at
\* 0xFFFF, the last byte of the PRG ROM image, reached by JMP $FFFF
BrkPrograms ==
    { << \h00, \hE8 >>,
      << \hEA, \hA9, \h00, \hE8, \h00, \hE8 >>,
      << \h4C, \h05, \h06, \hE8, \hE8, \hEA, \h00 >>,
      << \h4C, \hFF, \hFF >> }

\* every opcode but BRK, with the operand bytes 0x10 0x00 and a BRK behind
OtherOpcodePrograms == { << code, \h10, \h00 >> : code \in Byte \ {\h00} }

\* the build is with or without overflow checks
InitBrk ==
    \/ \E program \in BrkPrograms, a \in {\h00, \h5A}, x \in {\h00, \hFF},
          status \in {\h24, \hE7, \h65}, sp \in {\h00, \hFD, \hFF},
          checks \in BOOLEAN :
           InitLoaded({ WithChecks(Setup(program, a, x, \h11, status, sp), checks) })
    \/ \E program \in OtherOpcodePrograms, checks \in BOOLEAN :
           InitLoaded({ WithChecks(Setup(program, \h5A, \h03, \h11, \h24, \hFD),
                                   checks) })

SpecBrk == InitBrk /\ [][CpuStep]_vars

\* C32: the run returns exactly when opcode 0x00 is fetched, as a normal
\* halt: BRK changes nothing but the program counter, left one past the
\* opcode, it pushes nothing, nothing is executed after it, and the fetch of
\* any other opcode does not end the run.
C32_BrkHalts ==
    [][ /\ loop = "running"
        /\ op'.name = "step"
        /\ op'.arg = peek(bus, cpu.program_counter)
        /\ (loop' = "returned") <=> (op'.arg = \h00)
        /\ op'.arg = \h00
            => /\ fault' = "none"
               /\ cpu' = [cpu EXCEPT !.program_counter = (@ + 1) % 65536]
               /\ bus' = bus
        /\ op'.arg # \h00 => loop' = "running" ]_vars


(***************************************************************************)
(* Address resolution (CPU::get_absolute_address), seen through the loads  *)
(* LDA zp,X / LDX zp,Y / LDA abs,X / LDA abs,Y / LDA (zp,X) / LDA (zp),Y.  *)
(***************************************************************************)
\* page 0 holds small bytes, so that every pointer read from it names work
\* RAM; the other cells hold a byte that tells the cell and its page
filled_byte(a) ==
    IF a < 256 THEN (a * 3 + 1) % 8
               ELSE (a * 5 + (a \div 256) * 3 + 1) % 256
FilledRam ==
    [a \in { c \in 0..(RamSize - 1) : filled_byte(c) # 0 } |-> filled_byte(a)]

AddrOperands == {\h00, \h01, \h7F, \hFE, \hFF}
AddrIndexes == {\h00, \h01, \h80, \hFF}
AddrBases == { << \hFF, \h00 >>, << \hFF, \h07 >>, << \h34, \h02 >>,
               << \h80, \hFF >>, << \hFF, \hFF >> }

\* the program, with a BRK behind it, loaded into the filled RAM
InitAddrProgram(program, x, y) ==
    /\ ppu = NesPPU_new_empty_rom
    /\ \E c \in {[CPU_new EXCEPT !.register_x = x, !.register_y = y,
                                 !.program_counter = LoadBase]} :
       \E b \in {Bus_new(Rom(Image(\h4000, ProgEnableNmi), Chr(\h2000, 1), "HORIZONTAL"))} :
           /\ cpu = c
           /\ bus = load([cpu |-> c, bus |-> [b EXCEPT !.cpu_vram = FilledRam],
                          fault |-> "none", checks |-> FALSE],
                         program \o << \h00 >>).bus
    /\ loop = "running"
    /\ overflow_checks = FALSE
    /\ fault = "none"
    /\ op = [name |-> "load", arg |-> 0]
    /\ ret = 0
    /\ callbacks = 0
    /\ cb_seen = None
    /\ frame = [cb |-> 0, gen |-> None]
    /\ done = None
    /\ wraps = 0
    /\ accesses = 0
    /\ dots_total = 0
    /\ delivered = FALSE

InitAddr ==
    \/ \E code \in {\hB5, \hB6, \hA1, \hB1}, o \in AddrOperands,
          x \in AddrIndexes, y \in AddrIndexes :
           InitAddrProgram(<< code, o >>, x, y)
    \/ \E code \in {\hBD, \hB9}, base \in AddrBases,
          x \in AddrIndexes, y \in AddrIndexes :
           InitAddrProgram(<< code, base[1], base[2] >>, x, y)

SpecAddr == InitAddr /\ [][CpuStep]_vars

\* the operand byte and the operand word of the instruction about to run
operand_byte == peek(bus, cpu.program_counter + 1)
operand_word == peek_u16(bus, cpu.program_counter + 1)
\* the little-endian word at page-0 addresses z and (z + 1) mod 256
zero_page_word(z) == peek(bus, z) + 256 * peek(bus, (z + 1) % 256)

\* the effective address the claim gives for each load
effective_address(code) ==
    CASE code = \hB5 -> (operand_byte + cpu.register_x) % 256
      [] code = \hB6 -> (operand_byte + cpu.register_y) % 256
      [] code = \hBD -> (operand_word + cpu.register_x) % 65536
      [] code = \hB9 -> (operand_word + cpu.register_y) % 65536
      [] code = \hA1 -> zero_page_word((operand_byte + cpu.register_x) % 256)
      [] code = \hB1 -> (zero_page_word(operand_byte) + cpu.register_y) % 65536

\* C34: address resolution is bit-exact and wraps: ZeroPage-X/Y resolve to
\* (operand + index) mod 256; Indirect-X reads its pointer at (operand + X)
\* mod 256 and (operand + X + 1) mod 256; Indirect-Y reads its pointer at
\* operand and (operand + 1) mod 256 and adds Y modulo 65536; Absolute-X/Y
\* add the index to the operand word modulo 65536.  Each load fetches the
\* byte at that address.
C34_Addressing ==
    [][ \A code \in {\hB5, \hB6, \hBD, \hB9, \hA1, \hB1} :
            stepped(code)
                => /\ fault' = "none"
                   /\ (IF code = \hB6 THEN cpu'.register_x ELSE cpu'.register_a)
                        = peek(bus, effective_address(code))
                   /\ code \in {\hB5, \hB6} => effective_address(code) < 256 ]_vars

\* LDA ($FF,X) with X = 0 has run: the pointer's low byte was read at 0x00FF
\* and its high byte at 0x0000, not at 0x0100
C34_Witness ==
    /\ op = [name |-> "step", arg |-> \hA1]
    /\ peek(bus, LoadBase + 1) = \hFF
    /\ cpu.register_x = \h00
    /\ cpu.register_a = peek(bus, filled_byte(\hFF) + 256 * filled_byte(\h00))
    /\ cpu.register_a # peek(bus, filled_byte(\hFF) + 256 * filled_byte(\h0100))


(***************************************************************************)
(* The program counter after an instruction (CPU::branch, jmp, jsr, rts,   *)
(* rti and the length advance of run_with_callback).                       *)
(***************************************************************************)
\* targets of JMP and JSR at 0x0600: the instruction itself, its operand
\* byte, the following instruction, another page, both ends of memory
TransferTargets == {\h0600, \h0601, \h0603, \h0700, \h0000, \hFFFF}

\* return addresses on the stack for RTS and RTI (sp = 0xFC: status at
\* 0x01FD, address at 0x01FE / 0x01FF; sp = 0xFD for RTS)
ReturnAddresses == {\h0600, \h0601, \h0700, \h06FF}

InitTransfer ==
    \/ \E code \in {\h4C, \h20}, t \in TransferTargets :
           InitLoaded({ Setup(<< code, t % 256, t \div 256 >>, 0, 0, 0, 36, STACK_RESET) })
    \/ \E b \in Byte, status \in {36, 36 + ZERO_FLAG} :
           InitLoaded({ Setup(<< \hD0, b >>, 0, 0, 0, status, STACK_RESET) })
    \/ \E t \in ReturnAddresses :
           InitLoaded({ WithData(Setup(<< \h60 >>, 0, 0, 0, 36, STACK_RESET),
                                 << << \h01FE, t % 256 >>, << \h01FF, t \div 256 >> >>) })
    \/ \E t \in ReturnAddresses :
           InitLoaded({ WithData(Setup(<< \h40 >>, 0, 0, 0, 36, \hFC),
                                 << << \h01FD, \hE3 >>, << \h01FE, t % 256 >>,
                                    << \h01FF, t \div 256 >> >>) })
    \/ \E program \in { << \hEA >>, << \hA9, \h01 >>, << \hAD, \h00, \h02 >> } :
           InitLoaded({ Setup(program, 0, 0, 0, 36, STACK_RESET) })

SpecTransfer == InitTransfer /\ [][CpuStep]_vars

\* the word on the stack above the stack pointer plus k
stacked_word(k) ==
    peek(bus, STACK + ((cpu.stack_pointer + k) % 256))
      + 256 * peek(bus, STACK + ((cpu.stack_pointer + k + 1) % 256))

\* where the instruction at the program counter is to leave the program
\* counter: the transfer target, or the opcode's address plus its length
next_program_counter(code) ==
    CASE code \in {\h4C, \h20} -> peek_u16(bus, cpu.program_counter + 1)
      [] code = \hD0 /\ ~contains(cpu.status, ZERO_FLAG) ->
           (cpu.program_counter + 2
              + sign_extend(peek(bus, cpu.program_counter + 1))) % 65536
      [] code = \h60 -> (stacked_word(1) + 1) % 65536
      [] code = \h40 -> stacked_word(2)
      [] OTHER -> (cpu.program_counter + OpCode(code).len) % 65536

\* C35: after any instruction the program counter is the transfer target
\* when the instruction transfers control (taken branch, JMP, JSR, RTS, RTI)
\* and otherwise the opcode's address plus the opcode's table length.
C35_ProgramCounter ==
    [][ (op'.name = "step" /\ op'.arg # \h00 /\ fault' = "none")
            => cpu'.program_counter = next_program_counter(op'.arg) ]_vars


(***************************************************************************)
(* JSR and RTS (CPU::jsr, CPU::rts).                                       *)
(***************************************************************************)
\* subroutine addresses: on the program's page, on another page, in the
\* zero page, and the address of the JSR's own operand byte
SubroutineTargets == {\h0610, \h0700, \h0010, \h0601}

\* a JSR at 0x0600 and an RTS at the subroutine's address
InitSubroutine ==
    \E t \in SubroutineTargets, sp \in Byte :
        InitLoaded({ WithData(Setup(<< \h20, t % 256, t \div 256 >>, 0, 0, 0, 36, sp),
                              IF t = \h0601 THEN << >> ELSE << << t, \h60 >> >>) })

SpecSubroutine == InitSubroutine /\ [][CpuStep]_vars

\* C36: JSR pushes the address of its last byte, high byte first, lowers the
\* stack pointer by 2 and sets the program counter to its operand; the RTS
\* that follows pops that address, adds 1 and resumes at the instruction
\* after the JSR with the stack pointer the JSR started with, for every
\* subroutine target and every stack pointer value.
C36_Subroutine ==
    [][ /\ (stepped(\h20) /\ fault' = "none") =>
              /\ peek(bus', STACK + cpu.stack_pointer) = (cpu.program_counter + 2) \div 256
              /\ peek(bus', STACK + ((cpu.stack_pointer + 255) % 256))
                    = (cpu.program_counter + 2) % 256
              /\ cpu'.stack_pointer = (cpu.stack_pointer + 254) % 256
              /\ cpu'.program_counter = peek_u16(bus, cpu.program_counter + 1)
        /\ (stepped(\h60) /\ fault' = "none" /\ op.name = "step" /\ op.arg = \h20) =>
              /\ cpu'.program_counter = LoadBase + 3
              /\ cpu'.program_counter = (stacked_word(1) + 1) % 65536
              /\ cpu'.stack_pointer = (cpu.stack_pointer + 2) % 256
      ]_vars


(***************************************************************************)
(* Shifts and rotates (CPU::asl, lsr, rol, ror and their accumulator       *)
(* forms).                                                                 *)
(***************************************************************************)
ShiftAccumulatorCodes == {\h0A, \h4A, \h2A, \h6A}
ShiftMemoryCodes == {\h06, \h46, \h26, \h66}
ShiftOperand == \h10

\* status bytes before the shift: both values of Carry, Zero and Negative
ShiftStatuses ==
    { 36 + c + z + n : c \in {0, CARRY_FLAG}, z \in {0, ZERO_FLAG}, n \in {0, NEGATIVE_FLAG} }

\* one shift of the byte `value`, in the accumulator or in a zero-page cell
InitShift ==
    \E value \in Byte, status \in ShiftStatuses :
        \/ \E code \in ShiftAccumulatorCodes :
               InitLoaded({ Setup(<< code >>, value, 0, 0, status, STACK_RESET) })
        \/ \E code \in ShiftMemoryCodes :
               InitLoaded({ WithData(Setup(<< code, ShiftOperand >>, 0, 0, 0, status,
                                           STACK_RESET),
                                     << << ShiftOperand, value >> >>) })

SpecShift == InitShift /\ [][CpuStep]_vars

\* the byte the instruction shifts, before and after
shift_input(code) ==
    IF code \in ShiftAccumulatorCodes THEN cpu.register_a ELSE peek(bus, ShiftOperand)
shift_output(code) ==
    IF code \in ShiftAccumulatorCodes THEN cpu'.register_a ELSE peek(bus', ShiftOperand)
carry_in == IF contains(cpu.status, CARRY_FLAG) THEN 1 ELSE 0

\* the result byte and the bit shifted out, by operation
shifted(code, value, c) ==
    CASE code \in {\h0A, \h06} -> [result |-> (value * 2) % 256,         out |-> value \div 128]
      [] code \in {\h4A, \h46} -> [result |-> value \div 2,              out |-> value % 2]
      [] code \in {\h2A, \h26} -> [result |-> ((value * 2) % 256) + c,   out |-> value \div 128]
      [] code \in {\h6A, \h66} -> [result |-> (value \div 2) + 128 * c,  out |-> value % 2]

\* C38: after ASL, LSR, ROL or ROR, in the accumulator form and in the
\* memory form alike, the result byte is the shifted or rotated input,
\* Zero = (result = 0), Negative = bit 7 of the result and Carry = the bit
\* shifted out, so that both forms give the same byte and flags for the same
\* input byte and carry-in.
C38_Shifts ==
    [][ \A code \in ShiftAccumulatorCodes \union ShiftMemoryCodes :
          (stepped(code) /\ fault' = "none") =>
              LET s == shifted(code, shift_input(code), carry_in) IN
              /\ shift_output(code) = s.result
              /\ contains(cpu'.status, CARRY_FLAG) = (s.out = 1)
              /\ contains(cpu'.status, NEGATIVE_FLAG) = (s.result >= 128)
              /\ contains(cpu'.status, ZERO_FLAG) = (s.result = 0)
      ]_vars


(***************************************************************************)
(* The combined read-modify-write opcodes (CPU::slo, rla, sre, rra, dcp,   *)
(* isb) against their two primitives.                                      *)
(***************************************************************************)
\* combined opcode (zero-page form) -> the zero-page forms of its primitives
Primitives ==
    (\h07 :> << \h06, \h05 >>) @@ (\h27 :> << \h26, \h25 >>) @@
    (\h47 :> << \h46, \h45 >>) @@ (\h67 :> << \h66, \h65 >>) @@
    (\hC7 :> << \hC6, \hC5 >>) @@ (\hE7 :> << \hE6, \hE5 >>)
CombinedCodes == DOMAIN Primitives
CombinedOperand == \h10

CombinedAccumulators == {\h00, \h01, \h55, \h7F, \h80, \hFF}
CombinedStatuses ==
    { 36 + c + f : c \in {0, CARRY_FLAG}, f \in {0, ZERO_FLAG, OVERFLOW_FLAG, NEGATIVE_FLAG} }

\* a combined opcode on the cell 0x10, or its two primitives one after the
\* other on the same cell
InitCombined ==
    \E code \in CombinedCodes, value \in Byte,
       a \in CombinedAccumulators, status \in CombinedStatuses :
        \/ InitLoaded({ WithData(Setup(<< code, CombinedOperand >>, a, 0, 0, status,
                                       STACK_RESET),
                                 << << CombinedOperand, value >> >>) })
        \/ /\ value \in {\h00, \h01, \h80, \hFF}
           /\ InitLoaded({ WithData(Setup(<< Primitives[code][1], CombinedOperand,
                                             Primitives[code][2], CombinedOperand >>,
                                          a, 0, 0, status, STACK_RESET),
                                    << << CombinedOperand, value >> >>) })

SpecCombined == InitCombined /\ [][CpuStep]_vars

\* the accumulator, the cell and the flags of a machine
outcome(m) ==
    [a |-> m.cpu.register_a, cell |-> peek(m.bus, CombinedOperand), status |-> m.cpu.status]

\* the two primitives of `code` applied in sequence to the machine whose
\* program counter is on the operand byte
in_sequence(code) ==
    the({ execute(execute(m, Primitives[code][1], OpCode(Primitives[code][1])),
                  Primitives[code][2], OpCode(Primitives[code][2]))
        : m \in {[machine EXCEPT !.cpu.program_counter = cpu.program_counter + 1]} })

\* C37: each combined read-modify-write opcode (SLO, RLA, SRE, RRA, DCP,
\* ISB) leaves the accumulator, the memory cell and the status flags that
\* its two primitives leave when executed in sequence on the same operand.
C37_Combined ==
    [][ \A code \in CombinedCodes :
          (stepped(code) /\ fault' = "none") =>
              [a |-> cpu'.register_a, cell |-> peek(bus', CombinedOperand),
               status |-> cpu'.status] = outcome(in_sequence(code))
      ]_vars


(***************************************************************************)
(* The Break and Unused bits of the status register (CPU::reset, plp, rti, *)
(* the flag instructions).                                                 *)
(***************************************************************************)
\* RTI ; SEC ; SED ; SEI ; PHP ; PLP ; CLC ; CLD ; CLI ; CLV ; PLP ;
\* ADC #$7F ; ROL A ; CMP #$80 ; BRK     (in PRG ROM at 0x8000)
ProgStatus ==
    << \h40, \h38, \hF8, \h78, \h08, \h28, \h18, \hD8, \h58, \hB8, \h28,
       \h69, \h7F, \h2A, \hC9, \h80, \h00 >>

\* the status register before the reset
StaleStatuses == {\h00, \hFF}
\* the byte the second PLP pops
PulledBytes == {\h00, \h10, \hDF, \hFF}

\* a used CPU on a cartridge holding ProgStatus; the stack page holds the
\* frame RTI pops after the reset (any status byte, return address 0x8001)
\* and the byte the last PLP pops
InitStatusBits ==
    /\ ppu = NesPPU_new_empty_rom
    /\ \E stale \in StaleStatuses, pulled \in Byte, again \in PulledBytes :
           /\ cpu = [CPU_new EXCEPT !.status = stale, !.register_a = \h5A,
                                    !.stack_pointer = \h80]
           /\ bus = store([cpu |-> CPU_new,
                           bus |-> Bus_new(Rom(Image(\h4000, ProgStatus),
                                               Chr(\h2000, 1), "HORIZONTAL")),
                           fault |-> "none", checks |-> FALSE],
                          << << \h01FE, pulled >>, << \h01FF, \h01 >>,
                             << \h0100, \h80 >>, << \h0101, again >> >>).bus
    /\ loop = "idle"
    /\ overflow_checks = FALSE
    /\ fault = "none"
    /\ op = [name |-> "new", arg |-> 0]
    /\ ret = 0
    /\ callbacks = 0
    /\ cb_seen = None
    /\ frame = [cb |-> 0, gen |-> None]
    /\ done = None
    /\ wraps = 0
    /\ accesses = 0
    /\ dots_total = 0
    /\ delivered = FALSE

NextStatusBits == Reset \/ CpuStep

SpecStatusBits == InitStatusBits /\ [][NextStatusBits]_vars

\* C39: from the reset on, the status register has bit 5 (Unused) set and
\* bit 4 (Break) clear in every state, whatever instructions are executed,
\* PLP and RTI with any byte on the stack and the flag instructions included.
C39_StatusBits ==
    loop # "idle" =>
        /\ contains(cpu.status, BREAK2_COMMAND)
        /\ ~contains(cpu.status, BREAK_COMMAND)

\* RTI has just popped a status byte with Break set and Unused clear
C39_Witness ==
    /\ op = [name |-> "step", arg |-> \h40]
    /\ peek(bus, \h01FE) = \hDF
    /\ cpu.status = \hEF
    /\ cpu.program_counter = \h8001


(***************************************************************************)
(* The vertical-blank window (SpecPPU).                                    *)
(***************************************************************************)
\* C40: in every PPU state reached through ticks, polls, Control writes and
\* Status reads, vblank-started set or an NMI pending implies a scanline in
\* 241..261: neither survives the wrap to scanline 0 and no Control write
\* raises the NMI outside the vertical-blank scanlines.
C40_VblankWindow ==
    (check_vblank_started(ppu.status) \/ is_some(ppu.nmi_interrupt))
        => ppu.scanline \in VblankLine .. LinesPerFrame - 1

\* a Control write on the last scanline of the second frame has just raised
\* the NMI, vblank-started still being set
C40_Witness ==
    /\ op = [name |-> "write_to_ctrl", arg |-> GENERATE_NMI]
    /\ ppu.scanline = LinesPerFrame - 1
    /\ dots_total > DotsPerFrame
    /\ check_vblank_started(ppu.status)
    /\ is_some(ppu.nmi_interrupt)

====
